---- MODULE Spec2Model ----
(***************************************************************************)
(* A model of the Screener.in scraping toolkit (scraperv1.py, scraper.py). *)
(*                                                                         *)
(* The run of scrape_screener_company is sequential; its stages are        *)
(* modelled as state machines over disjoint groups of variables:           *)
(*   - the run as a whole             (SpecRun)                            *)
(*   - the table extractor            (SpecTables)                         *)
(*   - the file materializer          (SpecDownload)                       *)
(*   - the modal note extractor       (SpecNotes)                          *)
(*   - the document classifier        (SpecDocs)                           *)
(*   - the concall link extractor     (SpecConcalls)                       *)
(*   - the slow scroll                (SpecScroll)                         *)
(* Text is a sequence of characters (one-character strings).               *)
(***************************************************************************)
EXTENDS Integers, Sequences, FiniteSets, TLC

VARIABLES
    variant,        \* which scraper runs: "scraperv1" or "scraper"
    \* ---- table extractor
    tpc,            \* "tables" while the loop over all_tables runs, then "done"
    num_tables,     \* len(all_tables)
    tidx,           \* idx of the next table (0-based, as enumerate gives it)
    tables_saved,   \* the dict tables_saved: name -> shape
    csv_files,      \* files of financial_tables/: name -> indices of the tables written to it
    saved_count,    \* how many tables the loop has reported as saved
    base_count,     \* inferred base name -> how many saved tables resolved to it
    last_table,     \* what the last iteration saw and did
    \* ---- file materializer
    dpc,            \* "loop" while the loop over all_doc_links runs, then "done"
    category_pool,  \* the categories a DocumentLink of this run can carry
    num_items,      \* len(all_doc_links)
    didx,           \* how many items the loop has taken
    disk,           \* the paths of the files in the document folders
    download_stats, \* the dict download_stats: category -> count
    handed,         \* per item taken: the calls of download_file for it, and the result
    last_download,  \* what the last iteration saw and did
    \* ---- modal note extractor
    npc,            \* "start", then "loop" while the for loop runs, then "done"
    page_count,     \* how many Notes buttons the page holds now
    found,          \* len(notes_buttons) of the initial query
    nidx,           \* the next value of idx
    open_dialogs,   \* the dialogs the page shows open now
    notes_files,    \* files of concall_notes/: name -> text
    saved_log,      \* the writes of the run, in order
    activated,      \* the positions whose button was clicked, in order
    timed_out,      \* the positions whose dialog did not appear in time
    last_note,      \* what the last iteration saw and did
    \* ---- document classifier
    cpc,            \* "start", "sections" (the loop over the sub-headings), "done"
    page,           \* the parsed page as it was handed to the classifier
    dom,            \* the tree now: node -> parent (wrappers are appended)
    docs_heading,   \* the heading the search found, or None
    scope,          \* the container the classifier works in
    headings_left,  \* what is left of container.find_all(['h3', 'h4'])
    sections,       \* the list sections: (category, wrapper)
    docs,           \* the list docs: (category, link)
    result,         \* "none", then "returned" or "raised"
    \* ---- the run of scrape_screener_company
    run,            \* the position in the function body and its locals
    \* ---- concall link extractor
    concalls,       \* the Concalls part of the page, the position and the list built
    \* ---- slow scroll
    scroll          \* scroll_height, step, current and the position in the loop

tvars == <<tpc, num_tables, tidx, tables_saved, csv_files, saved_count, base_count, last_table>>

dvars ==
    <<dpc, category_pool, num_items, didx, disk, download_stats, handed, last_download>>

nvars ==
    <<npc, page_count, found, nidx, open_dialogs, notes_files, saved_log, activated,
      timed_out, last_note>>

cvars == <<cpc, page, dom, docs_heading, scope, headings_left, sections, docs, result>>

rvars == <<run>>

lvars == <<concalls>>

svars == <<scroll>>

vars == <<variant, tvars, dvars, nvars, cvars, rvars, lvars, svars>>

\* what a stage leaves alone: the variables of the other stages
outside_tables == <<variant, dvars, nvars, cvars, rvars, lvars, svars>>

outside_download == <<variant, tvars, nvars, cvars, rvars, lvars, svars>>

outside_notes == <<variant, tvars, dvars, cvars, rvars, lvars, svars>>

outside_docs == <<variant, tvars, dvars, nvars, rvars, lvars, svars>>

outside_run == <<variant, tvars, dvars, nvars, cvars, lvars, svars>>

outside_concalls == <<variant, tvars, dvars, nvars, cvars, rvars, svars>>

outside_scroll == <<variant, tvars, dvars, nvars, cvars, rvars, lvars>>

Variants == {"scraperv1", "scraper"}

(***************************************************************************)
(* Bounds of the model.                                                    *)
(***************************************************************************)
MaxTables == 3
MaxItems == 2
MaxTriggers == 3
MaxNodes == 5
MaxListNodes == 4
MaxHeight == 24

(***************************************************************************)
(* Text helpers.                                                           *)
(***************************************************************************)
Forbidden == {"<", ">", ":", "\"", "/", "\\", "|", "?", "*"}

White == {" ", "\t", "\n"}

RECURSIVE LStrip(_)
LStrip(s) == IF s # <<>> /\ Head(s) \in White THEN LStrip(Tail(s)) ELSE s

RECURSIVE RStrip(_)
RStrip(s) ==
    IF s # <<>> /\ s[Len(s)] \in White THEN RStrip(SubSeq(s, 1, Len(s) - 1)) ELSE s

Strip(s) == RStrip(LStrip(s))

\* re.sub(r'\s+', '_', s): every maximal run of whitespace becomes one "_"
CollapseWhite(s) ==
    LET first == SelectSeq([i \in 1..Len(s) |-> i],
                           LAMBDA i : s[i] \notin White \/ i = 1 \/ s[i - 1] \notin White)
    IN  [k \in 1..Len(first) |-> IF s[first[k]] \in White THEN "_" ELSE s[first[k]]]

MaxFilenameLen == 150

Truncate(s, n) == IF Len(s) > n THEN SubSeq(s, 1, n) ELSE s

clean_filename(text) ==
    LET t1 == SelectSeq(text, LAMBDA c : c \notin Forbidden)
        t2 == CollapseWhite(Strip(t1))
        t3 == [i \in 1..Len(t2) |-> IF t2[i] \in {"/", "\\"} THEN "_" ELSE t2[i]]
    IN  Truncate(t3, MaxFilenameLen)

RECURSIVE Str(_)
Str(n) == IF n < 10 THEN <<ToString(n)>> ELSE Str(n \div 10) \o <<ToString(n % 10)>>

(***************************************************************************)
(* Table extractor: the loop over all_tables of scrape_screener_company.   *)
(***************************************************************************)
NoSection == <<"None">>

RatiosText == <<"R", "a", "t", "i", "o", "s">>

TableText == <<"T", "a", "b", "l", "e">>

\* what extract_section_heading can return for a table: a heading text
Sections ==
    { RatiosText,
      RatiosText \o <<" ", "1">>,
      TableText \o <<" ", "/", "1">> }

\* the keywords the name inference looks for in the first column's text; the
\* text is modelled by the set of keywords that occur in it
FirstColTexts ==
    { {}, {"sales"}, {"sales", "equity"}, {"equity", "roce"},
      {"cash from operating", "roce"}, {"roce", "sep"}, {"dec", "promoter"},
      {"fii"}, {"mar"} }

\* a table as the name inference reads it: its section heading, or None and the
\* first column's text (which is read only when there is no heading)
Headings ==
    [section : Sections, first_col : {{}}]
        \cup [section : {NoSection}, first_col : FirstColTexts]

\* row and column counts of a parsed grid, on both sides of the 2 x 2 threshold
Dims == {1, 2}

Faults == {"none", "parse", "save"}

ProfitLossName == <<"P", "r", "o", "f", "i", "t", "_", "L", "o", "s", "s">>

BalanceSheetName == <<"B", "a", "l", "a", "n", "c", "e", "_", "S", "h", "e", "e", "t">>

CashFlowsName == <<"C", "a", "s", "h", "_", "F", "l", "o", "w", "s">>

QuarterlyName ==
    <<"Q", "u", "a", "r", "t", "e", "r", "l", "y", "_", "R", "e", "s", "u", "l", "t", "s">>

ShareholdingName ==
    <<"S", "h", "a", "r", "e", "h", "o", "l", "d", "i", "n", "g", "_",
      "P", "a", "t", "t", "e", "r", "n">>

AnyIn(keys, text) == keys \cap text # {}

KeywordName(v, first_col_text, idx) ==
    IF AnyIn({"sales", "revenue", "operating profit", "expenses"}, first_col_text)
        THEN ProfitLossName
    ELSE IF AnyIn({"equity", "reserves", "assets", "liabilities", "borrowings"},
                  first_col_text)
        THEN BalanceSheetName
    ELSE IF AnyIn({"cash from operating", "cash from investing", "cash from financing"},
                  first_col_text)
        THEN CashFlowsName
    ELSE IF AnyIn({"debtor days", "roce", "roe", "working capital"}, first_col_text)
        THEN RatiosText
    ELSE IF AnyIn({"sep", "dec", "jun"}, first_col_text)
        THEN QuarterlyName
    ELSE IF v = "scraperv1" /\ AnyIn({"promoter", "fii", "dii"}, first_col_text)
        THEN ShareholdingName
    ELSE TableText \o <<"_">> \o Str(idx)

BaseName(v, section, first_col_text, idx) ==
    IF section # NoSection THEN clean_filename(section)
    ELSE KeywordName(v, first_col_text, idx)

Suffixed(base, counter) == base \o <<"_">> \o Str(counter)

\* the while loop "while name in tables_saved", entered with name = base_counter
RECURSIVE DedupFrom(_, _, _)
DedupFrom(base, counter, used) ==
    IF Suffixed(base, counter) \in used
    THEN DedupFrom(base, counter + 1, used)
    ELSE Suffixed(base, counter)

\* a faulty deduplication: the counter starts at 2
UniqueNameFromTwo(base, used) == IF base \in used THEN DedupFrom(base, 2, used) ELSE base

\* a faulty deduplication: "if" in place of "while", _1 is taken unseen
UniqueNameIfNotWhile(base, used) == IF base \in used THEN Suffixed(base, 1) ELSE base

\* name = base_name; counter = 1; while name in tables_saved: ...
UniqueName(base, used) == IF base \in used THEN DedupFrom(base, 1, used) ELSE base

\* a faulty shape test: "and" in place of "or"
TooSmallBoth(rows, cols) == rows < 2 /\ cols < 2

\* df.shape[0] < 2 or df.shape[1] < 2
TooSmall(rows, cols) == rows < 2 \/ cols < 2

CountOf(f, k) == IF k \in DOMAIN f THEN f[k] ELSE 0

NoName == <<"no name">>

NoTable ==
    [idx |-> -1, section |-> NoSection, first_col |-> {}, rows |-> 0, cols |-> 0,
     fault |-> "none", base |-> NoName, name |-> NoName, outcome |-> "none",
     saved_before |-> <<>>, files_before |-> <<>>, bases_before |-> <<>>,
     partial |-> FALSE]

TableRecord(idx, section, first_col, rows, cols, fault, base, name, outcome) ==
    [idx |-> idx, section |-> section, first_col |-> first_col, rows |-> rows,
     cols |-> cols, fault |-> fault, base |-> base, name |-> name,
     outcome |-> outcome, saved_before |-> tables_saved,
     files_before |-> csv_files, bases_before |-> base_count, partial |-> FALSE]

\* a faulty handler: the except clause stands around the loop, not inside it
LoopAfterAborting(outcome) == IF outcome = "failed" THEN "done" ELSE "tables"

\* where the loop over all_tables stands after an iteration: the try/except is
\* inside the for body, so a failed table leaves the loop running
LoopAfter(outcome) == "tables"

InitTables ==
    /\ tpc = "tables"
    /\ num_tables \in 0..MaxTables
    /\ tidx = 0
    /\ tables_saved = <<>>
    /\ csv_files = <<>>
    /\ saved_count = 0
    /\ base_count = <<>>
    /\ last_table = NoTable

IdleTables ==
    /\ tpc = "idle"
    /\ num_tables = 0
    /\ tidx = 0
    /\ tables_saved = <<>>
    /\ csv_files = <<>>
    /\ saved_count = 0
    /\ base_count = <<>>
    /\ last_table = NoTable

TakingTable == tpc = "tables" /\ tidx < num_tables /\ last_table = NoTable

\* pd.read_html raises: the except clause logs and the loop goes on
TableParseFails ==
    /\ TakingTable
    /\ \E h \in Headings :
          last_table' = TableRecord(tidx, h.section, h.first_col, 0, 0, "parse",
                                    NoName, NoName, "failed")
    /\ tidx' = tidx + 1
    /\ tpc' = LoopAfter("failed")
    /\ UNCHANGED <<num_tables, tables_saved, csv_files, saved_count, base_count>>
    /\ UNCHANGED outside_tables

\* the grid has fewer than 2 rows or 2 columns: continue
TableDropped ==
    /\ TakingTable
    /\ \E h \in Headings, rows \in Dims, cols \in Dims :
          /\ TooSmall(rows, cols)
          /\ last_table' = TableRecord(tidx, h.section, h.first_col, rows, cols, "none",
                                       NoName, NoName, "dropped")
    /\ tidx' = tidx + 1
    /\ tpc' = LoopAfter("dropped")
    /\ UNCHANGED <<num_tables, tables_saved, csv_files, saved_count, base_count>>
    /\ UNCHANGED outside_tables

\* the table is named; df.to_csv raises, before the file exists or after a part
\* of it has been written (the part stays at the path; csv_files holds the files
\* whose write completed)
TableSaveFails ==
    /\ TakingTable
    /\ \E h \in Headings, rows \in Dims, cols \in Dims, part \in BOOLEAN :
          LET base == BaseName(variant, h.section, h.first_col, tidx)
              name == UniqueName(base, DOMAIN tables_saved)
          IN  /\ ~TooSmall(rows, cols)
              /\ last_table' = [TableRecord(tidx, h.section, h.first_col, rows, cols,
                                            "save", base, name, "failed")
                                   EXCEPT !.partial = part]
    /\ tidx' = tidx + 1
    /\ tpc' = LoopAfter("failed")
    /\ UNCHANGED <<num_tables, tables_saved, csv_files, saved_count, base_count>>
    /\ UNCHANGED outside_tables

\* the table is named, written, and recorded in tables_saved
TableSaved ==
    /\ TakingTable
    /\ \E h \in Headings, rows \in Dims, cols \in Dims :
          LET base == BaseName(variant, h.section, h.first_col, tidx)
              name == UniqueName(base, DOMAIN tables_saved)
              old == IF name \in DOMAIN csv_files THEN csv_files[name] ELSE <<>>
          IN  /\ ~TooSmall(rows, cols)
              /\ csv_files' = [n \in DOMAIN csv_files \cup {name} |->
                                  IF n = name THEN Append(old, tidx) ELSE csv_files[n]]
              /\ tables_saved' = [n \in DOMAIN tables_saved \cup {name} |->
                                     IF n = name THEN <<rows, cols>> ELSE tables_saved[n]]
              /\ saved_count' = saved_count + 1
              /\ base_count' = [b \in DOMAIN base_count \cup {base} |->
                                   IF b = base THEN CountOf(base_count, base) + 1
                                   ELSE base_count[b]]
              /\ last_table' = TableRecord(tidx, h.section, h.first_col, rows, cols, "none",
                                           base, name, "saved")
    /\ tidx' = tidx + 1
    /\ tpc' = LoopAfter("saved")
    /\ UNCHANGED num_tables
    /\ UNCHANGED outside_tables

\* the for statement takes the next table: the bindings of the last one are gone
TableNext ==
    /\ tpc = "tables" /\ last_table # NoTable
    /\ last_table' = NoTable
    /\ UNCHANGED <<tpc, num_tables, tidx, tables_saved, csv_files, saved_count, base_count>>
    /\ UNCHANGED outside_tables

TablesDone ==
    /\ tpc = "tables" /\ tidx >= num_tables /\ last_table = NoTable
    /\ tpc' = "done"
    /\ UNCHANGED <<num_tables, tidx, tables_saved, csv_files, saved_count, base_count, last_table>>
    /\ UNCHANGED outside_tables

NextTables ==
    \/ TableParseFails
    \/ TableDropped
    \/ TableSaveFails
    \/ TableSaved
    \/ TableNext
    \/ TablesDone

(***************************************************************************)
(* File materializer: the download loop of scrape_screener_company and     *)
(* download_file.                                                          *)
(***************************************************************************)
FolderKeys(v) ==
    IF v = "scraperv1"
    THEN {"tables", "annual", "concalls", "announcements", "credit_ratings",
          "quarterly_results", "other"}
    ELSE {"tables", "annual", "concalls", "announcements", "credit_ratings", "other"}

\* the dict folders: key -> subfolder of the company folder
folders(v, key) ==
    CASE key = "tables" -> "financial_tables"
      [] key = "annual" -> "annual_reports"
      [] key = "concalls" -> "concalls"
      [] key = "announcements" -> "announcements"
      [] key = "credit_ratings" -> "credit_ratings"
      [] key = "quarterly_results" -> "quarterly_result_pdfs"
      [] key = "other" -> "other_documents"

\* folder_key = category; if folder_key not in folders: folder_key = <fallback>
FolderKey(v, category) ==
    IF category \in FolderKeys(v) THEN category
    ELSE IF v = "scraperv1" THEN "other" ELSE "announcements"

\* the categories the extractors of a variant put on a DocumentLink
ProducedCategories(v) ==
    IF v = "scraperv1"
    THEN {"announcements", "annual", "credit_ratings", "other", "concalls",
          "quarterly_results"}
    ELSE {"announcements", "annual", "concalls", "credit_ratings", "other"}

\* any category string a DocumentLink could carry
AnyCategories == ProducedCategories("scraperv1") \cup {"presentations"}

\* A URL, by the features the code reads from it:
\*   site      which substring tests of download_file / the ICRA rewrite it passes
\*   path_ext  os.path.splitext(urlparse(url).path)[1].lower()
\*   has_pdf   '.pdf' in url.lower()
\*   has_id    the query carries Id=<digits>
Url(site, path_ext, has_pdf, has_id) ==
    [site |-> site, path_ext |-> path_ext, has_pdf |-> has_pdf, has_id |-> has_id]

IcraUrls == { Url("icra", "", FALSE, TRUE), Url("icra", "", FALSE, FALSE) }

Urls ==
    { Url("plain", ".pdf", TRUE, FALSE),
      Url("plain", ".html", FALSE, FALSE),
      Url("plain", ".aspx", FALSE, FALSE),
      Url("plain", ".aspx", TRUE, FALSE),
      Url("plain", "", FALSE, FALSE),
      Url("plain", ".zip", FALSE, FALSE),
      Url("indiaratings", "", FALSE, FALSE),
      Url("crisil", ".html", FALSE, FALSE),
      Url("icra", "", FALSE, TRUE),
      Url("icra", "", FALSE, FALSE) }

IcraPdfUrl == Url("icra_pdf", "", FALSE, TRUE)

\* the rewrite of an ICRA rationale page to the direct PDF endpoint
IcraRewrites(v, category, url) ==
    v = "scraperv1" /\ category = "credit_ratings" /\ url.site = "icra" /\ url.has_id

FullUrl(v, category, url) == IF IcraRewrites(v, category, url) THEN IcraPdfUrl ELSE url

ForcePdf(v, category, url, flag) ==
    IF IcraRewrites(v, category, url) THEN TRUE ELSE (v = "scraperv1" /\ flag)

\* a faulty choice of extension: force_pdf is not looked at
ChooseExtIgnoringFlag(v, force_pdf, url) ==
    IF url.path_ext \in {".pdf"} THEN ".pdf"
    ELSE IF url.path_ext \in {".htm", ".html"} THEN ".html"
    ELSE IF url.path_ext \in {".aspx", ".php", ""}
         THEN (IF url.has_pdf THEN ".pdf" ELSE ".html")
    ELSE url.path_ext

\* the extension the caller gives the file name
ChooseExt(v, force_pdf, url) ==
    IF v = "scraperv1"
    THEN IF force_pdf THEN ".pdf"
         ELSE IF url.path_ext \in {".pdf"} THEN ".pdf"
         ELSE IF url.path_ext \in {".htm", ".html"} THEN ".html"
         ELSE IF url.path_ext \in {".aspx", ".php", ""}
              THEN (IF url.has_pdf THEN ".pdf" ELSE ".html")
         ELSE url.path_ext
    ELSE IF url.path_ext # "" THEN url.path_ext ELSE ".pdf"

\* the link texts of the model; the empty text makes the name "<category>_<n>"
IsDigit(c) == c \in {"0", "1", "2", "3", "4", "5", "6", "7", "8", "9"}

\* re.search(r'(20\d{2}|19\d{2}|FY\d{2}|Q\d)', text) matches at position i
DateAt(text, i) ==
    LET at(k) == IF i + k <= Len(text) THEN text[i + k] ELSE "" IN
    IF at(0) = "2" /\ at(1) = "0" /\ IsDigit(at(2)) /\ IsDigit(at(3))
        THEN SubSeq(text, i, i + 3)
    ELSE IF at(0) = "1" /\ at(1) = "9" /\ IsDigit(at(2)) /\ IsDigit(at(3))
        THEN SubSeq(text, i, i + 3)
    ELSE IF at(0) = "F" /\ at(1) = "Y" /\ IsDigit(at(2)) /\ IsDigit(at(3))
        THEN SubSeq(text, i, i + 3)
    ELSE IF at(0) = "Q" /\ IsDigit(at(1))
        THEN SubSeq(text, i, i + 1)
    ELSE <<>>

\* the leftmost match, or <<>> when there is none
DateMatch(text) ==
    LET hits == {i \in 1..Len(text) : DateAt(text, i) # <<>>} IN
    IF hits = {} THEN <<>>
    ELSE DateAt(text, CHOOSE i \in hits : \A j \in hits : i <= j)

Contains(s, sub) ==
    \E i \in 1..(Len(s) - Len(sub) + 1) : SubSeq(s, i, i + Len(sub) - 1) = sub

\* the file name without its extension
Stem(category, text, count) ==
    LET named == IF text # <<>> THEN text ELSE <<category, "_">> \o Str(count)
        filename == clean_filename(named)
        date == DateMatch(text)
    IN  IF date # <<>> /\ ~Contains(filename, date)
        THEN filename \o <<"_">> \o date
        ELSE filename

Path(folder, stem, ext) == [folder |-> folder, stem |-> stem, ext |-> ext]

with_suffix(path, ext) == [path EXCEPT !.ext = ext]

SavePath(v, category, text, url, flag, stats) ==
    LET key == FolderKey(v, category) IN
    Path(folders(v, key),
         Stem(category, text, CountOf(stats, key)),
         ChooseExt(v, ForcePdf(v, category, url, flag), FullUrl(v, category, url)))

\* a faulty bundle: the raw HTML backup is not written
BundleWithoutRaw(folder, url) ==
    { [folder |-> folder, stem |-> <<url.site>>, ext |-> ".md"],
      [folder |-> folder, stem |-> <<url.site>>, ext |-> ".html"] }

\* download_file hands the URL to a dedicated formatter
Delegates(v, url) == v = "scraperv1" /\ url.site \in {"indiaratings", "crisil"}

\* the three files a dedicated formatter writes into the folder of save_path
Bundle(folder, url) ==
    { Path(folder, <<url.site>>, ".md"),
      Path(folder, <<url.site>>, ".html"),
      Path(folder, <<url.site, "_raw">>, ".html") }

\* what the HEAD probe of scraperv1 reports; scraper.py sends none
HeadOutcomes(v) == IF v = "scraperv1" THEN {"raises", "pdf", "html", "other"} ELSE {"none"}

Unbound == "unbound"

\* is_pdf after the HEAD probe: assigned only when the probe does not raise
IsPdfAfterHead(head) ==
    IF head = "raises" THEN Unbound ELSE IF head = "pdf" THEN "True" ELSE "False"

ContentTypeHasHtml(head) == head = "html"

\* reading is_pdf raises UnboundLocalError when the probe raised
AdjustRaises(v, path, head) ==
    /\ v = "scraperv1"
    /\ path.ext \notin {".pdf", ".html", ".htm"}
    /\ IsPdfAfterHead(head) = Unbound

\* "Adjust extension based on real content type" (the elif branch is unreachable:
\* .aspx and .php are handled by the first branch)
AdjustedPath(v, path, head) ==
    IF v # "scraperv1" THEN path
    ELSE IF path.ext \notin {".pdf", ".html", ".htm"}
    THEN IF IsPdfAfterHead(head) = "True" THEN with_suffix(path, ".pdf")
         ELSE IF ContentTypeHasHtml(head) \/ path.ext \in {".aspx", ".php", ""}
              THEN with_suffix(path, ".html")
              ELSE path
    ELSE path

MinSizeV1 == 500

MinSizeOld == 1000

MinSize(v) == IF v = "scraperv1" THEN MinSizeV1 ELSE MinSizeOld

\* str.lower() on the words response bodies are made of
Lower(w) ==
    CASE w = "ERROR" -> "error"
      [] w = "Not Found" -> "not found"
      [] w = "ACCESS DENIED" -> "access denied"
      [] OTHER -> w

ErrorPhrases == {"error", "not found", "404", "access denied"}

Body(size, text) == [size |-> size, text |-> text]

SoundBody(v) == Body(MinSize(v) - 1, <<"%PDF", "stream">>)

\* response bodies: below the size threshold or at it, with or without a phrase
Bodies(v) ==
    { SoundBody(v),
      Body(MinSize(v) - 1, <<"ACCESS DENIED">>),
      Body(MinSize(v) - 1, <<"Page", "Not Found">>),
      Body(MinSize(v), <<"HTTP", "404">>) }

NoBody == [size |-> -1, text |-> <<>>]

\* any(word in content for word in [...]) with content = f.read().lower()
HasErrorPhrase(text) == \E i \in 1..Len(text) : Lower(text[i]) \in ErrorPhrases

\* the post-download check decides to drop the file
DropsFile(v, body) == body.size < MinSize(v) /\ HasErrorPhrase(body.text)

\* save_path.unlink() is called while the file is still open for reading (inside
\* the with block): it succeeds where an open file can be unlinked and raises
\* where it cannot
UnlinkOutcomes == {"ok", "raises"}

\* what download_file returns after the check: scraperv1 swallows an exception of
\* the check in its inner except and returns True; in scraper.py the exception
\* reaches the outer except, which returns False
ReturnAfterCheck(v, drop, unlink) ==
    IF ~drop THEN TRUE
    ELSE IF unlink = "ok" THEN FALSE
    ELSE v = "scraperv1"

NoPath == Path("", <<>>, "")

NoDownload ==
    [category |-> "", text |-> <<>>, url |-> Url("", "", FALSE, FALSE), flag |-> FALSE,
     force_pdf |-> FALSE, save_path |-> NoPath, target |-> NoPath, formatter |-> "none",
     head |-> "", get |-> "", body |-> NoBody, unlink |-> "", written |-> {},
     outcome |-> "none", ret |-> FALSE, stats_before |-> <<>>, disk_before |-> {}]

\* the record of one iteration: the item, what the network answered, what was done
DownloadRecord(it, save_path, target, formatter, head, get, body, unlink, written, outcome, ret) ==
    [category |-> it.category, text |-> it.text, url |-> it.url, flag |-> it.flag,
     force_pdf |-> ForcePdf(variant, it.category, it.url, it.flag),
     save_path |-> save_path, target |-> target, formatter |-> formatter,
     head |-> head, get |-> get, body |-> body, unlink |-> unlink, written |-> written,
     outcome |-> outcome, ret |-> ret, stats_before |-> download_stats,
     disk_before |-> disk]

\* the DocumentLinks the loop can meet: every category of the pool, every URL
\* shape and every text occur; force_pdf is set by the quarterly-PDF scanner only
DocText == <<"Q", "1", " ", "F", "Y", "2", "4">>

PlainPdfUrl == Url("plain", ".pdf", TRUE, FALSE)

Item(category, text, url) ==
    [category |-> category, text |-> text, url |-> url,
     flag |-> (category = "quarterly_results")]

Items ==
    { Item("annual", text, url) : text \in {<<>>, DocText}, url \in Urls \ IcraUrls }
        \cup { Item(c, DocText, PlainPdfUrl) : c \in category_pool }
        \cup { Item("credit_ratings", DocText, url) : url \in IcraUrls }
        \cup { Item("quarterly_results", DocText, url) :
                  url \in {u \in Urls \ IcraUrls : "quarterly_results" \in category_pool} }

\* the answers of the network to one raw download: every probe outcome with a
\* sound body, and every body with an HTML probe
Answers(v) ==
    { <<head, SoundBody(v)>> : head \in HeadOutcomes(v) }
        \cup { <<IF v = "scraperv1" THEN "html" ELSE "none", body>> : body \in Bodies(v) }

Counted(stats, category) ==
    [c \in DOMAIN stats \cup {category} |->
        IF c = category THEN CountOf(stats, category) + 1 ELSE stats[c]]

\* a faulty caller: the counter goes up whatever download_file returned
StatsAfterAnyReturn(stats, category, ret) == Counted(stats, category)

\* if download_file(full_url, save_path): download_stats[category] = ... + 1
StatsAfter(stats, category, ret) == IF ret THEN Counted(stats, category) ELSE stats

\* a faulty download_file: requests.get and raise_for_status stand outside the try
ExceptOfBareGet(v, point) ==
    IF point = "get" THEN "none"
    ELSE IF v = "scraperv1" /\ point \in {"formatter", "probe", "check"} THEN point
    ELSE "outer"

\* the except clause of download_file that catches an exception raised at a point
\* of its body ("none": no clause does): in scraperv1.py the formatter calls, the
\* probe and the small-file check have a clause of their own, everything else, and
\* everything in scraper.py, is caught by the clause that ends the function
ExceptOf(v, point) ==
    IF v = "scraperv1" /\ point \in {"formatter", "probe", "check"} THEN point
    ELSE "outer"

\* where the loop is after an exception at the point: it goes on when a clause of
\* download_file caught it
AfterException(v, point) == IF ExceptOf(v, point) = "none" THEN "raised" ELSE "loop"

InitialStats(v) == [c \in ProducedCategories(v) |-> 0]

\* one entry of handed: how often download_file was called for the item and what
\* the call returned
Handed(calls, ret) == [calls |-> calls, ret |-> ret]

InitDownloadWith(pool) ==
    /\ dpc = "loop"
    /\ category_pool = pool
    /\ num_items \in 0..MaxItems
    /\ didx = 0
    /\ disk = {}
    /\ download_stats = InitialStats(variant)
    /\ handed = <<>>
    /\ last_download = NoDownload

IdleDownload ==
    /\ dpc = "idle"
    /\ category_pool = {}
    /\ num_items = 0
    /\ didx = 0
    /\ disk = {}
    /\ download_stats = <<>>
    /\ handed = <<>>
    /\ last_download = NoDownload

Taking == dpc = "loop" /\ didx < num_items /\ last_download = NoDownload

SavePathOf(it) ==
    SavePath(variant, it.category, it.text, it.url, it.flag, download_stats)

\* "none" when download_file does not delegate, else what the formatter did
FormatterRaised(it) ==
    IF Delegates(variant, FullUrl(variant, it.category, it.url)) THEN "raised" ELSE "none"

\* save_path.exists(): continue
DownloadSkipped ==
    /\ Taking
    /\ \E it \in Items :
          /\ SavePathOf(it) \in disk
          /\ last_download' = DownloadRecord(it, SavePathOf(it), SavePathOf(it), "none",
                                             "", "", NoBody, "", {}, "skipped", FALSE)
    /\ didx' = didx + 1
    /\ handed' = Append(handed, Handed(0, FALSE))
    /\ UNCHANGED <<dpc, category_pool, num_items, disk, download_stats>>
    /\ UNCHANGED outside_download

\* a dedicated formatter writes its bundle: download_file returns True
DownloadDelegated ==
    /\ Taking
    /\ \E it \in Items :
          LET url == FullUrl(variant, it.category, it.url)
              bundle == Bundle(SavePathOf(it).folder, url)
          IN  /\ SavePathOf(it) \notin disk
              /\ Delegates(variant, url)
              /\ disk' = disk \cup bundle
              /\ download_stats' = StatsAfter(download_stats, it.category, TRUE)
              /\ last_download' = DownloadRecord(it, SavePathOf(it), SavePathOf(it), "ok",
                                                 "", "", NoBody, "", bundle, "delegated", TRUE)
    /\ didx' = didx + 1
    /\ handed' = Append(handed, Handed(1, TRUE))
    /\ UNCHANGED <<dpc, category_pool, num_items>>
    /\ UNCHANGED outside_download

\* the suffix adjustment reads is_pdf, which the raising probe left unassigned:
\* the UnboundLocalError reaches the outer except and download_file returns False
DownloadUnbound ==
    /\ Taking
    /\ \E it \in Items, head \in HeadOutcomes(variant) :
          /\ SavePathOf(it) \notin disk
          /\ AdjustRaises(variant, SavePathOf(it), head)
          /\ download_stats' = StatsAfter(download_stats, it.category, FALSE)
          /\ last_download' = DownloadRecord(it, SavePathOf(it), SavePathOf(it),
                                             FormatterRaised(it), head, "", NoBody, "",
                                             {}, "unbound", FALSE)
    /\ dpc' = AfterException(variant, "adjust")
    /\ didx' = didx + 1
    /\ handed' = Append(handed, Handed(1, FALSE))
    /\ UNCHANGED <<category_pool, num_items, disk>>
    /\ UNCHANGED outside_download

\* requests.get or raise_for_status raises (timeout, connection error, status that
\* is not 2xx): download_file returns False
DownloadGetFails ==
    /\ Taking
    /\ \E it \in Items, head \in HeadOutcomes(variant) :
          /\ SavePathOf(it) \notin disk
          /\ ~AdjustRaises(variant, SavePathOf(it), head)
          /\ download_stats' = StatsAfter(download_stats, it.category, FALSE)
          /\ last_download' = DownloadRecord(it, SavePathOf(it),
                                             AdjustedPath(variant, SavePathOf(it), head),
                                             FormatterRaised(it), head, "raises", NoBody,
                                             "", {}, "get failed", FALSE)
    /\ dpc' = AfterException(variant, "get")
    /\ didx' = didx + 1
    /\ handed' = Append(handed, Handed(1, FALSE))
    /\ UNCHANGED <<category_pool, num_items, disk>>
    /\ UNCHANGED outside_download

\* the response breaks off while its chunks are written: the file has been opened
\* and holds what arrived, download_file returns False
DownloadWriteFails ==
    /\ Taking
    /\ \E it \in Items, head \in HeadOutcomes(variant) :
          LET target == AdjustedPath(variant, SavePathOf(it), head)
          IN  /\ SavePathOf(it) \notin disk
              /\ ~AdjustRaises(variant, SavePathOf(it), head)
              /\ disk' = disk \cup {target}
              /\ download_stats' = StatsAfter(download_stats, it.category, FALSE)
              /\ last_download' = DownloadRecord(it, SavePathOf(it), target,
                                                 FormatterRaised(it), head, "ok", NoBody,
                                                 "", {target}, "write failed", FALSE)
    /\ dpc' = AfterException(variant, "write")
    /\ didx' = didx + 1
    /\ handed' = Append(handed, Handed(1, FALSE))
    /\ UNCHANGED <<category_pool, num_items>>
    /\ UNCHANGED outside_download

\* the raw download: probe, suffix adjustment, GET, write, small-error-page check
DownloadRaw ==
    /\ Taking
    /\ \E it \in Items, answer \in Answers(variant), unlink \in UnlinkOutcomes :
          LET head == answer[1]
              body == answer[2]
              target == AdjustedPath(variant, SavePathOf(it), head)
              drop == DropsFile(variant, body)
              ret == ReturnAfterCheck(variant, drop, unlink)
          IN  /\ SavePathOf(it) \notin disk
              /\ ~AdjustRaises(variant, SavePathOf(it), head)
              /\ ~drop => unlink = "ok"
              /\ disk' = IF drop /\ unlink = "ok" THEN disk \ {target}
                         ELSE disk \cup {target}
              /\ download_stats' = StatsAfter(download_stats, it.category, ret)
              /\ handed' = Append(handed, Handed(1, ret))
              /\ last_download' = DownloadRecord(it, SavePathOf(it), target,
                                                 FormatterRaised(it), head, "ok", body,
                                                 IF drop THEN unlink ELSE "", {target},
                                                 IF ~drop THEN "raw"
                                                 ELSE IF unlink = "ok" THEN "dropped"
                                                 ELSE "kept", ret)
          /\ dpc' = IF unlink = "raises" THEN AfterException(variant, "check") ELSE dpc
    /\ didx' = didx + 1
    /\ UNCHANGED <<category_pool, num_items>>
    /\ UNCHANGED outside_download

\* the for statement takes the next item: the bindings of the last one are gone
DownloadNext ==
    /\ dpc = "loop" /\ last_download # NoDownload
    /\ last_download' = NoDownload
    /\ UNCHANGED <<dpc, category_pool, num_items, didx, disk, download_stats, handed>>
    /\ UNCHANGED outside_download

DownloadsDone ==
    /\ dpc = "loop" /\ didx >= num_items /\ last_download = NoDownload
    /\ dpc' = "done"
    /\ UNCHANGED <<category_pool, num_items, didx, disk, download_stats, handed,
                   last_download>>
    /\ UNCHANGED outside_download

NextDownload ==
    \/ DownloadSkipped
    \/ DownloadDelegated
    \/ DownloadUnbound
    \/ DownloadGetFails
    \/ DownloadWriteFails
    \/ DownloadRaw
    \/ DownloadNext
    \/ DownloadsDone

(***************************************************************************)
(* Modal note extractor: extract_concall_notes of scraperv1.py.            *)
(* The browser is the environment: it decides whether a click raises,      *)
(* whether a dialog appears, what it shows and whether it goes away.       *)
(***************************************************************************)
\* the open dialogs the page can show: one left from before the run, one opened
\* by an earlier button of the run, the one of the button just clicked
StaleDialog == "stale"

EarlierDialog == "earlier"

OwnDialog == "own"

\* once the iteration is over, the dialog of its button is one of an earlier button
Aged(open) == IF OwnDialog \in open THEN (open \ {OwnDialog}) \cup {EarlierDialog} ELSE open

NotesSuffix == <<"_", "c", "o", "n", "c", "a", "l", "l", "_", "n", "o", "t", "e", "s">>

ConcallPrefix == <<"C", "o", "n", "c", "a", "l", "l", "_">>

RowRaises == <<"raises">>

\* a title with a forbidden character and a blank that is longer than a file name
\* may be
LongTitle == <<"Q", "2", "/", "2", "4", " ">> \o [i \in 1..MaxFilenameLen |-> "x"]

\* where a title can come from: the attribute data-title, else the first line of
\* the row's text (reading it may raise), else "Concall_<idx+1>"
TitleSources ==
    { [attr |-> <<"Q", "1">>, row |-> <<>>],
      [attr |-> LongTitle, row |-> <<>>],
      [attr |-> <<>>, row |-> <<" ", "Q", "1">>],
      [attr |-> <<>>, row |-> <<>>],
      [attr |-> <<>>, row |-> RowRaises] }

TitleOf(src, idx) ==
    IF src.attr # <<>> THEN src.attr
    ELSE IF src.row = RowRaises THEN ConcallPrefix \o Str(idx + 1)
    ELSE IF Strip(src.row) # <<>> THEN Strip(src.row)
    ELSE ConcallPrefix \o Str(idx + 1)

\* out_path.name for a title
NoteFile(title) == clean_filename(title \o NotesSuffix) \o <<".", "m", "d">>

\* what the article of a dialog can show, before strip(): nothing but white
\* space, or notes (of the button at idx when the dialog is the one it opened)
RawTexts(dlg, idx) ==
    { <<" ">>,
      <<" ", "n", "o", "t", "e", "s", " ">>
          \o (IF dlg = OwnDialog THEN Str(idx) ELSE <<dlg>>) \o <<" ">> }

\* close_any_open_dialog: nothing to do when no dialog is open; else the first
\* open dialog is asked to close and its disappearance is awaited, every failure
\* and the timeout of the wait being swallowed. The result is the set of dialogs
\* still open: all of them, or all but the one that closed.
CloseAny(open) == {open} \cup { open \ {d} : d \in open }

\* closing the dialog that was read, with the same swallowed failures
CloseRead(open, dlg) == {open, open \ {dlg}}

\* a faulty loop: the timeout branch breaks instead of continuing
EndsLoopOnTimeout(outcome) == outcome \in {"break", "timeout"}

\* which ends of an iteration leave the for loop: only the break
EndsLoop(outcome) == outcome = "break"

\* a faulty iteration: the dialog is closed before its text is written
EventsClosingFirst(outcome) ==
    IF outcome = "saved"
    THEN <<"requery", "title", "close any", "activate", "wait visible", "read text",
           "close", "wait gone", "write">>
    ELSE <<"requery">>

\* what an iteration does with the page and the disk, in program order, by the way
\* it ends
EventsOf(outcome) ==
    CASE outcome = "requery raised" -> <<"requery", "close any">>
      [] outcome = "break" -> <<"requery">>
      [] outcome = "activation raised" ->
            <<"requery", "title", "close any", "activate", "close any">>
      [] outcome = "timeout" ->
            <<"requery", "title", "close any", "activate", "wait visible">>
      [] outcome = "read raised" ->
            <<"requery", "title", "close any", "activate", "wait visible", "read text",
              "close any">>
      [] outcome = "no text" ->
            <<"requery", "title", "close any", "activate", "wait visible", "read text",
              "close", "wait gone">>
      [] outcome = "saved" ->
            <<"requery", "title", "close any", "activate", "wait visible", "read text",
              "write", "close", "wait gone">>

\* a faulty bound check: if idx > len(notes_buttons): break
InRangeOrAtEnd(idx, count) == idx <= count

\* btn = notes_buttons[idx] is reached: not (idx >= len(notes_buttons))
InRange(idx, count) == idx < count

\* the button the re-queried list holds at position idx: the one the initial query
\* had there, or another one (the list lost an earlier entry or came in another
\* order)
Buttons == {"same", "other"}

NoNote ==
    [idx |-> -1, list_len |-> -1, button |-> "", title |-> <<>>,
     clicked |-> FALSE, open_at_click |-> {}, dialog |-> "",
     text |-> <<>>, file |-> <<>>, outcome |-> "none", files_before |-> <<>>,
     events |-> <<>>]

NoteRecord(idx, list_len, button, title, clicked, open_at_click, dialog, text, file, outcome) ==
    [idx |-> idx, list_len |-> list_len, button |-> button, title |-> title,
     clicked |-> clicked, open_at_click |-> open_at_click,
     dialog |-> dialog, text |-> text, file |-> file, outcome |-> outcome,
     files_before |-> notes_files, events |-> EventsOf(outcome)]

InitNotes ==
    /\ npc = "start"
    /\ page_count \in 0..MaxTriggers
    /\ found = 0
    /\ nidx = 0
    /\ open_dialogs \in {{}, {StaleDialog}}
    /\ notes_files = <<>>
    /\ saved_log = <<>>
    /\ activated = <<>>
    /\ timed_out = {}
    /\ last_note = NoNote

IdleNotes ==
    /\ npc = "idle"
    /\ page_count = 0
    /\ found = 0
    /\ nidx = 0
    /\ open_dialogs = {}
    /\ notes_files = <<>>
    /\ saved_log = <<>>
    /\ activated = <<>>
    /\ timed_out = {}
    /\ last_note = NoNote

\* close_any_open_dialog(), then the initial query fails: return
NotesQueryRaises ==
    /\ npc = "start"
    /\ \E open \in CloseAny(open_dialogs) : open_dialogs' = open
    /\ npc' = "done"
    /\ UNCHANGED <<page_count, found, nidx, notes_files, saved_log, activated, timed_out,
                   last_note>>
    /\ UNCHANGED outside_notes

\* close_any_open_dialog(), then the initial query: return when it finds nothing
NotesStart ==
    /\ npc = "start"
    /\ \E open \in CloseAny(open_dialogs) : open_dialogs' = open
    /\ found' = page_count
    /\ npc' = IF page_count = 0 THEN "done" ELSE "loop"
    /\ UNCHANGED <<page_count, nidx, notes_files, saved_log, activated, timed_out, last_note>>
    /\ UNCHANGED outside_notes

TakingNote == npc = "loop" /\ nidx < found /\ last_note = NoNote

\* how an iteration that ended with `outcome` leaves the loop position
Advance(outcome) ==
    /\ timed_out' = IF outcome = "timeout" THEN timed_out \cup {nidx} ELSE timed_out
    /\ npc' = IF EndsLoop(outcome) THEN "done" ELSE "loop"
    /\ nidx' = IF EndsLoop(outcome) THEN nidx ELSE nidx + 1

\* the re-query raises: the outer except closes any dialog, the loop goes on
NotesRequeryRaises ==
    /\ TakingNote
    /\ \E open \in CloseAny(open_dialogs) : open_dialogs' = open
    /\ last_note' = NoteRecord(nidx, -1, "", <<>>, FALSE, {}, "", <<>>, <<>>,
                            "requery raised")
    /\ Advance("requery raised")
    /\ UNCHANGED <<page_count, found, notes_files, saved_log, activated>>
    /\ UNCHANGED outside_notes

\* the re-queried list is too short for idx: break
NotesBreak ==
    /\ TakingNote
    /\ \E count \in 0..page_count :
          /\ ~InRange(nidx, count)
          /\ page_count' = count
          /\ last_note' = NoteRecord(nidx, count, "", <<>>, FALSE, {}, "", <<>>, <<>>,
                                     "break")
    /\ Advance("break")
    /\ UNCHANGED <<found, open_dialogs, notes_files, saved_log, activated>>
    /\ UNCHANGED outside_notes

\* scrollIntoView raises, or the click and the JS click both raise: the outer
\* except closes any dialog, the loop goes on
NotesActivationRaises ==
    /\ TakingNote
    /\ \E count \in 0..page_count, button \in Buttons, src \in TitleSources,
          open1 \in CloseAny(open_dialogs) :
          /\ InRange(nidx, count)
          /\ page_count' = count
          /\ \E open \in CloseAny(open1) : open_dialogs' = open
          /\ last_note' = NoteRecord(nidx, count, button, TitleOf(src, nidx), FALSE, {}, "",
                                     <<>>, <<>>,
                                     "activation raised")
    /\ Advance("activation raised")
    /\ UNCHANGED <<found, notes_files, saved_log, activated>>
    /\ UNCHANGED outside_notes

\* the button is clicked and no dialog is visible within the timeout: continue
\* (the dialog may still appear after the wait has given up)
NotesTimeout ==
    /\ TakingNote
    /\ \E count \in 0..page_count, button \in Buttons, src \in TitleSources,
          open1 \in CloseAny(open_dialogs), late \in BOOLEAN :
          /\ InRange(nidx, count)
          /\ page_count' = count
          /\ open1 = {}
          /\ open_dialogs' = IF late THEN {EarlierDialog} ELSE {}
          /\ last_note' = NoteRecord(nidx, count, button, TitleOf(src, nidx), TRUE, open1, "", <<>>, <<>>,
                                     "timeout")
    /\ activated' = Append(activated, nidx)
    /\ Advance("timeout")
    /\ UNCHANGED <<found, notes_files, saved_log>>
    /\ UNCHANGED outside_notes

\* the dialogs open once the button has been clicked: the ones left open before,
\* and the one of this button if it appears
AfterClick(open1) == {open1, open1 \cup {OwnDialog}} \ {{}}

\* a dialog is visible but reading its text raises: the outer except closes any
\* dialog, the loop goes on
NotesReadRaises ==
    /\ TakingNote
    /\ \E count \in 0..page_count, button \in Buttons, src \in TitleSources,
          open1 \in CloseAny(open_dialogs) :
          /\ InRange(nidx, count)
          /\ page_count' = count
          /\ \E open2 \in AfterClick(open1) :
                \E open \in CloseAny(open2) :
                    /\ open_dialogs' = Aged(open)
                    /\ last_note' = NoteRecord(nidx, count, button, TitleOf(src, nidx), TRUE, open1, "",
                                               <<>>, <<>>, "read raised")
    /\ activated' = Append(activated, nidx)
    /\ Advance("read raised")
    /\ UNCHANGED <<found, notes_files, saved_log>>
    /\ UNCHANGED outside_notes

\* a dialog is visible and its text is empty after strip(): nothing is saved, the
\* dialog is closed
NotesNoText ==
    /\ TakingNote
    /\ \E count \in 0..page_count, button \in Buttons, src \in TitleSources,
          open1 \in CloseAny(open_dialogs) :
          /\ InRange(nidx, count)
          /\ page_count' = count
          /\ \E open2 \in AfterClick(open1) :
                \E dlg \in open2 : \E raw \in RawTexts(dlg, nidx), open \in CloseRead(open2, dlg) :
                    /\ Strip(raw) = <<>>
                    /\ open_dialogs' = Aged(open)
                    /\ last_note' = NoteRecord(nidx, count, button, TitleOf(src, nidx), TRUE, open1, dlg,
                                               <<>>, <<>>, "no text")
    /\ activated' = Append(activated, nidx)
    /\ Advance("no text")
    /\ UNCHANGED <<found, notes_files, saved_log>>
    /\ UNCHANGED outside_notes

\* a dialog is visible and shows text: the text is written to the file named from
\* the title, the dialog is closed
NotesSaved ==
    /\ TakingNote
    /\ \E count \in 0..page_count, button \in Buttons, src \in TitleSources,
          open1 \in CloseAny(open_dialogs) :
          /\ InRange(nidx, count)
          /\ page_count' = count
          /\ \E open2 \in AfterClick(open1) :
                \E dlg \in open2 : \E raw \in RawTexts(dlg, nidx), open \in CloseRead(open2, dlg) :
                    LET text == Strip(raw)
                        file == NoteFile(TitleOf(src, nidx))
                    IN  /\ text # <<>>
                        /\ open_dialogs' = Aged(open)
                        /\ notes_files' = [f \in DOMAIN notes_files \cup {file} |->
                                              IF f = file THEN text ELSE notes_files[f]]
                        /\ saved_log' = Append(saved_log,
                                               [file |-> file, text |-> text])
                        /\ last_note' = NoteRecord(nidx, count, button, TitleOf(src, nidx), TRUE, open1,
                                                   dlg, text, file, "saved")
    /\ activated' = Append(activated, nidx)
    /\ Advance("saved")
    /\ UNCHANGED found
    /\ UNCHANGED outside_notes

\* the for statement takes the next idx: the bindings of the last one are gone
NotesNext ==
    /\ npc = "loop" /\ last_note # NoNote
    /\ last_note' = NoNote
    /\ UNCHANGED <<npc, page_count, found, nidx, open_dialogs, notes_files, saved_log,
                   activated, timed_out>>
    /\ UNCHANGED outside_notes

\* range(len(notes_buttons)) is exhausted
NotesDone ==
    /\ npc = "loop" /\ nidx >= found /\ last_note = NoNote
    /\ npc' = "done"
    /\ UNCHANGED <<page_count, found, nidx, open_dialogs, notes_files, saved_log,
                   activated, timed_out, last_note>>
    /\ UNCHANGED outside_notes

NextNotes ==
    \/ NotesQueryRaises
    \/ NotesStart
    \/ NotesRequeryRaises
    \/ NotesBreak
    \/ NotesActivationRaises
    \/ NotesTimeout
    \/ NotesReadRaises
    \/ NotesNoText
    \/ NotesSaved
    \/ NotesNext
    \/ NotesDone

(***************************************************************************)
(* Document classifier: extract_documents_links of both variants.          *)
(* A page is a tree: the nodes 1..n in document order, each with its kind  *)
(* and its parent; 0 is <body>.                                            *)
(***************************************************************************)
BodyTag == 0

None == -1

Div == [tag |-> "div", text |-> "", href |-> FALSE]

Heading(tag, text) == [tag |-> tag, text |-> text, href |-> FALSE]

Link(text) == [tag |-> "a", text |-> text, href |-> TRUE]

\* the kinds of node of the model; texts are as get_text(strip=True).lower() gives
\* them
NodeKinds ==
    { Div,
      Heading("h2", "documents"),
      Heading("h3", "documents"),
      Heading("h3", "announcements"),
      Heading("h4", "annual reports"),
      Heading("h3", "concalls"),
      Link("annual report 2024"),
      Link("show more") }

\* keyword in text, for the keywords the classifiers look for
In(keyword, text) ==
    CASE text = "documents" -> keyword = "documents"
      [] text = "announcements" -> keyword \in {"announce", "announcement"}
      [] text = "annual reports" -> keyword = "annual"
      [] text = "concalls" -> keyword = "concall"
      [] OTHER -> FALSE

RECURSIVE PathToBody(_, _)
PathToBody(parent, n) ==
    IF n = BodyTag THEN {BodyTag} ELSE {n} \cup PathToBody(parent, parent[n])

\* where the next node of the document can go: into the last node or into one of
\* its ancestors, which has to be an element that holds others; <body> holds one
\* element, the top div of the page
OpenElements(p) ==
    IF p.kind = <<>> THEN {BodyTag}
    ELSE { x \in PathToBody(p.parent, Len(p.kind)) \ {BodyTag} : p.kind[x] = Div }

\* the kinds the next node can have
NextKinds(p) == IF p.kind = <<>> THEN {Div} ELSE NodeKinds

EmptyPage == [kind |-> <<>>, parent |-> <<>>]

\* a wrapper made by soup.new_tag('div') is a div
KindOf(n) == IF n \in 1..Len(page.kind) THEN page.kind[n] ELSE Div

Nodes(tree) == 1..Len(tree)

RECURSIVE IsUnder(_, _, _)
IsUnder(tree, c, n) ==
    /\ c \in Nodes(tree)
    /\ tree[c] # None
    /\ (tree[c] = n \/ IsUnder(tree, tree[c], n))

Descendants(tree, n) == { c \in Nodes(tree) : IsUnder(tree, c, n) }

RECURSIVE InOrder(_)
InOrder(set) ==
    IF set = {} THEN <<>>
    ELSE LET first == CHOOSE x \in set : \A y \in set : x <= y
         IN  <<first>> \o InOrder(set \ {first})

IsDocsHeading(n) ==
    KindOf(n).tag \in {"h2", "h3", "h4"} /\ In("documents", KindOf(n).text)

\* the first h2/h3/h4 whose text contains 'documents', or None
FindDocsHeading(tree) ==
    LET hits == { n \in Nodes(tree) : IsDocsHeading(n) } IN
    IF hits = {} THEN None ELSE CHOOSE n \in hits : \A m \in hits : n <= m

\* faulty guards: the function goes on whatever the search gave
ProceedsAlways(node) == TRUE

\* the guards "if not docs_heading: return docs" and "if not container: return
\* docs": the function goes on only with a node
Proceeds(node) == node # None

HrefLinks(tree, n) == { a \in Descendants(tree, n) : KindOf(a).tag = "a" /\ KindOf(a).href }

MaxClimb == 10

\* a faulty walk: "if link_count >= best_link_count", the last ancestor with the
\* most links is kept
RECURSIVE BestContainerOutermost(_, _, _, _, _)
BestContainerOutermost(tree, c, steps, best, best_count) ==
    IF steps = 0 THEN best
    ELSE LET up == tree[c] IN
         IF up = None \/ up = BodyTag THEN best
         ELSE LET count == Cardinality(HrefLinks(tree, up)) IN
              IF count >= best_count
              THEN BestContainerOutermost(tree, up, steps - 1, up, count)
              ELSE BestContainerOutermost(tree, up, steps - 1, best, best_count)

\* scraperv1.py: walk up to MaxClimb ancestors, stop below <body>, keep the first
\* ancestor with the most links
RECURSIVE BestContainer(_, _, _, _, _)
BestContainer(tree, c, steps, best, best_count) ==
    IF steps = 0 THEN best
    ELSE LET up == tree[c] IN
         IF up = None \/ up = BodyTag THEN best
         ELSE LET count == Cardinality(HrefLinks(tree, up)) IN
              IF count > best_count
              THEN BestContainer(tree, up, steps - 1, up, count)
              ELSE BestContainer(tree, up, steps - 1, best, best_count)

MaxClimbOld == 4

ManyLinks == 10

\* scraper.py: climb at most MaxClimbOld levels, stop at <body> or at a container
\* with more than ManyLinks links
RECURSIVE ClimbOld(_, _, _)
ClimbOld(tree, c, steps) ==
    IF steps = 0 THEN c
    ELSE LET up == tree[c] IN
         IF up = None \/ up = BodyTag THEN up
         ELSE IF Cardinality(HrefLinks(tree, up)) > ManyLinks THEN up
         ELSE ClimbOld(tree, up, steps - 1)

ChooseContainer(v, tree, heading) ==
    IF v = "scraperv1" THEN BestContainer(tree, heading, MaxClimb, None, 0)
    ELSE ClimbOld(tree, heading, MaxClimbOld)

IsSubHeading(n) == KindOf(n).tag \in {"h3", "h4"}

SubHeadings(tree, container) == { h \in Descendants(tree, container) : IsSubHeading(h) }

\* scraperv1.py: the category of a sub-heading that is not skipped
CategoryOf(title) ==
    IF In("announce", title) THEN "announcements"
    ELSE IF In("annual", title) THEN "annual"
    ELSE IF In("credit", title) THEN "credit_ratings"
    ELSE "other"

Skipped(title) == In("concall", title)

\* the siblings after the heading, up to the next h3/h4 among them
SectionNodes(tree, h) ==
    LET after == { s \in Nodes(tree) : tree[s] = tree[h] /\ s > h }
        stops == { s \in after : IsSubHeading(s) }
    IN  { s \in after : \A t \in stops : s < t }

\* wrapper.append(node) for each node: the nodes leave their parent
Wrapped(tree, nodes) ==
    [n \in 1..(Len(tree) + 1) |->
        IF n = Len(tree) + 1 THEN None
        ELSE IF n \in nodes THEN Len(tree) + 1
        ELSE tree[n]]

NavTexts == {"all", "show more", "show all", "add missing"}

\* "if not text or text.lower() in [...]: continue"
IsNavigation(text) == text = "" \/ text \in NavTexts

DocumentLink(category, a) == [category |-> category, link |-> a]

\* the links of one section, in document order
SectionLinks(tree, section) ==
    LET kept == { a \in HrefLinks(tree, section.wrapper) : ~IsNavigation(KindOf(a).text) }
        order == InOrder(kept)
    IN  [i \in 1..Len(order) |-> DocumentLink(section.category, order[i])]

RECURSIVE AllSectionLinks(_, _)
AllSectionLinks(tree, secs) ==
    IF secs = <<>> THEN <<>>
    ELSE SectionLinks(tree, Head(secs)) \o AllSectionLinks(tree, Tail(secs))

\* scraper.py: div.find(['h3', 'h4']), the first sub-heading inside the div
FirstSubHeading(tree, div) ==
    LET hs == SubHeadings(tree, div) IN
    IF hs = {} THEN None ELSE CHOOSE h \in hs : \A g \in hs : h <= g

ColumnKeywords == {"announcement", "annual", "concall", "credit"}

\* scraper.py: the divs of the container whose first sub-heading names a column
Columns(tree, container) ==
    LET divs == { d \in Descendants(tree, container) :
                    /\ KindOf(d).tag = "div"
                    /\ FirstSubHeading(tree, d) # None
                    /\ \E k \in ColumnKeywords :
                          In(k, KindOf(FirstSubHeading(tree, d)).text) }
        order == InOrder(divs)
    IN  [i \in 1..Len(order) |->
            [title |-> KindOf(FirstSubHeading(tree, order[i])).text, wrapper |-> order[i]]]

CategoryOfColumn(title) ==
    IF In("announce", title) THEN "announcements"
    ELSE IF In("annual", title) THEN "annual"
    ELSE IF In("concall", title) THEN "concalls"
    ELSE IF In("credit", title) THEN "credit_ratings"
    ELSE "other"

\* scraper.py: every link of every column, navigation links too
RECURSIVE ColumnLinks(_, _)
ColumnLinks(tree, cols) ==
    IF cols = <<>> THEN <<>>
    ELSE LET order == InOrder(HrefLinks(tree, Head(cols).wrapper))
         IN  [i \in 1..Len(order) |->
                 DocumentLink(CategoryOfColumn(Head(cols).title), order[i])]
             \o ColumnLinks(tree, Tail(cols))

\* soup.find_all reaches the nodes that hang under <body>
Attached(tree, n) == IsUnder(tree, n, BodyTag)

\* extract_concalls_comprehensive: the first div whose first h3 has 'concall' in
\* its text (the class tests on the div are taken to pass), or None
ConcallContainer(tree) ==
    LET first_h3(d) ==
            LET hs == { h \in Descendants(tree, d) : KindOf(h).tag = "h3" } IN
            IF hs = {} THEN None ELSE CHOOSE h \in hs : \A g \in hs : h <= g
        hits == { d \in Nodes(tree) :
                    /\ Attached(tree, d)
                    /\ KindOf(d).tag = "div"
                    /\ first_h3(d) # None
                    /\ In("concall", KindOf(first_h3(d)).text) }
    IN  IF hits = {} THEN None ELSE CHOOSE d \in hits : \A e \in hits : d <= e

\* the elements with an href and a text that the concall extractor finds on the
\* tree (list, items and the concall-link class are taken to be in place)
ConcallLinks(tree) ==
    IF ConcallContainer(tree) = None THEN {}
    ELSE { a \in HrefLinks(tree, ConcallContainer(tree)) : KindOf(a).text # "" }

InitDocs ==
    /\ cpc = "start"
    /\ page = EmptyPage
    /\ dom = <<>>
    /\ docs_heading = None
    /\ scope = None
    /\ headings_left = <<>>
    /\ sections = <<>>
    /\ docs = <<>>
    /\ result = "none"

IdleDocs ==
    /\ cpc = "idle"
    /\ page = EmptyPage
    /\ dom = <<>>
    /\ docs_heading = None
    /\ scope = None
    /\ headings_left = <<>>
    /\ sections = <<>>
    /\ docs = <<>>
    /\ result = "none"

\* BeautifulSoup(html, 'html.parser') builds the tree: one more node of the
\* document, before the classifier is called
ParseNode ==
    /\ cpc = "start"
    /\ Len(page.kind) < MaxNodes
    /\ \E k \in NextKinds(page), a \in OpenElements(page) :
          /\ page' = [kind |-> Append(page.kind, k), parent |-> Append(page.parent, a)]
          /\ dom' = Append(dom, a)
    /\ UNCHANGED <<cpc, docs_heading, scope, headings_left, sections, docs, result>>
    /\ UNCHANGED outside_docs

\* no heading is found: "Documents heading not found", return docs
DocsNoHeading ==
    /\ cpc = "start"
    /\ ~Proceeds(FindDocsHeading(dom))
    /\ cpc' = "done"
    /\ result' = "returned"
    /\ UNCHANGED <<page, dom, docs_heading, scope, headings_left, sections, docs>>
    /\ UNCHANGED outside_docs

\* the heading is found and the container is looked for; None has no parent, so
\* going on without a heading raises
DocsContainer ==
    /\ cpc = "start"
    /\ Proceeds(FindDocsHeading(dom))
    /\ docs_heading' = FindDocsHeading(dom)
    /\ IF FindDocsHeading(dom) = None
       THEN /\ cpc' = "done"
            /\ result' = "raised"
            /\ UNCHANGED <<scope, headings_left>>
       ELSE LET container == ChooseContainer(variant, dom, FindDocsHeading(dom)) IN
            /\ scope' = container
            /\ IF Proceeds(container)
               THEN /\ cpc' = "sections"
                    /\ result' = IF container = None THEN "raised" ELSE "none"
                    /\ headings_left' =
                          IF container = None \/ variant # "scraperv1" THEN <<>>
                          ELSE InOrder(SubHeadings(dom, container))
               ELSE /\ cpc' = "done"
                    /\ result' = "returned"
                    /\ UNCHANGED headings_left
    /\ UNCHANGED <<page, dom, sections, docs>>
    /\ UNCHANGED outside_docs

\* scraperv1.py, one turn of the loop over the sub-headings: a concall heading is
\* skipped, any other gets its section when it has siblings
DocsSection ==
    /\ cpc = "sections" /\ result = "none" /\ variant = "scraperv1"
    /\ headings_left # <<>>
    /\ LET h == Head(headings_left)
           title == KindOf(h).text
           nodes == SectionNodes(dom, h)
       IN  IF Skipped(title) \/ nodes = {}
           THEN UNCHANGED <<dom, sections>>
           ELSE /\ dom' = Wrapped(dom, nodes)
                /\ sections' = Append(sections, [category |-> CategoryOf(title),
                                                 wrapper |-> Len(dom) + 1,
                                                 heading |-> h])
    /\ headings_left' = Tail(headings_left)
    /\ UNCHANGED <<cpc, page, docs_heading, scope, docs, result>>
    /\ UNCHANGED outside_docs

\* scraperv1.py: "No document sections found under Documents", return docs
DocsNoSections ==
    /\ cpc = "sections" /\ result = "none" /\ variant = "scraperv1"
    /\ headings_left = <<>>
    /\ sections = <<>>
    /\ cpc' = "done"
    /\ result' = "returned"
    /\ UNCHANGED <<page, dom, docs_heading, scope, headings_left, sections, docs>>
    /\ UNCHANGED outside_docs

\* scraperv1.py: the links of every section are collected, return docs
DocsLinks ==
    /\ cpc = "sections" /\ result = "none" /\ variant = "scraperv1"
    /\ headings_left = <<>>
    /\ sections # <<>>
    /\ docs' = AllSectionLinks(dom, sections)
    /\ cpc' = "done"
    /\ result' = "returned"
    /\ UNCHANGED <<page, dom, docs_heading, scope, headings_left, sections>>
    /\ UNCHANGED outside_docs

\* scraper.py: the columns are collected and their links with them; without
\* columns, "No document columns found under Documents", return docs
DocsColumns ==
    /\ cpc = "sections" /\ result = "none" /\ variant = "scraper"
    /\ sections' = Columns(dom, scope)
    /\ docs' = ColumnLinks(dom, Columns(dom, scope))
    /\ cpc' = "done"
    /\ result' = "returned"
    /\ UNCHANGED <<page, dom, docs_heading, scope, headings_left>>
    /\ UNCHANGED outside_docs

NextDocs ==
    \/ ParseNode
    \/ DocsNoHeading
    \/ DocsContainer
    \/ DocsSection
    \/ DocsNoSections
    \/ DocsLinks
    \/ DocsColumns

(***************************************************************************)
(* The run: scrape_screener_company from the creation of the browser       *)
(* session to driver.quit(). The browser and the site are the environment: *)
(* they decide which driver call raises and what the page shows. The       *)
(* stages modelled in detail elsewhere appear here by their results only.  *)
(***************************************************************************)
\* the statements of the try block, in program order
Steps(v) ==
    IF v = "scraperv1"
    THEN <<"login", "get", "wait", "scroll", "expand", "show_more", "slow_scroll", "notes",
           "parse", "paywall", "snapshot", "tables", "links", "downloads", "summary",
           "return">>
    ELSE <<"login", "get", "wait", "scroll", "expand", "slow_scroll",
           "parse", "paywall", "snapshot", "tables", "links", "downloads", "summary",
           "return">>

StepAfter(v, step) ==
    LET i == CHOOSE k \in 1..Len(Steps(v)) : Steps(v)[k] = step
    IN  IF i < Len(Steps(v)) THEN Steps(v)[i + 1] ELSE "finally"

\* the transient failures of the browser
UiFaults == {"NoSuchElement", "ElementNotInteractable", "StaleElementReference", "Timeout"}

\* the steps that drive the browser, and what each can raise: the steps that touch
\* elements can raise any of the failures, the page load, the wait for the first
\* table and the scroll scripts can time out
UiSteps == {"get", "wait", "scroll", "expand", "show_more", "slow_scroll", "notes"}

FaultsAt(step) ==
    IF step \in {"expand", "show_more", "notes"} THEN UiFaults
    ELSE IF step \in {"get", "wait", "scroll", "slow_scroll"} THEN {"Timeout"}
    ELSE {}

\* the driver calls of the step sit in a try/except of the function that makes
\* them: expand_all_accordions, click_show_more_buttons and extract_concall_notes
\* wrap every driver call; driver.get(url), the WebDriverWait for the first table
\* and the execute_script calls of the scrolls stand bare in the try/finally of
\* scrape_screener_company
CaughtLocally(step) == step \in {"expand", "show_more", "notes"}

\* os.getenv gives a non-empty value or not
Creds == [username : BOOLEAN, password : BOOLEAN]

\* a faulty login: the login page is opened before the credentials are looked at
HasCredsAlways(creds) == TRUE

\* if not username or not password: return False
HasCreds(creds) == creds.username /\ creds.password

\* what the login form does once it is driven: the browser leaves the login page,
\* stays on it, or a driver call raises
LoginOutcomes == {"logged in", "still on login page"} \cup UiFaults

\* the return value of login_to_screener
LoginReturn(outcome) == IF outcome = "logged in" THEN "True" ELSE "False"

PaywallPhrases ==
    {"login to view", "sign in to access", "subscribe to view", "premium members only",
     "access denied", "this page is only available to"}

\* soup.get_text() of the pages of the model, as the phrases it is made of
PageTexts ==
    { <<"Annual", "reports">>,
      <<"Login to view">>,
      <<"Upgrade to premium">>,
      <<"Annual", "ACCESS DENIED">> }

\* str.lower() on the phrases pages are made of
LowerPhrase(w) ==
    CASE w = "Login to view" -> "login to view"
      [] w = "Upgrade to premium" -> "upgrade to premium"
      [] w = "ACCESS DENIED" -> "access denied"
      [] w = "Annual" -> "annual"
      [] OTHER -> w

\* check_paywall: some phrase of the list is in the lowered page text
check_paywall(text) == \E i \in 1..Len(text) : LowerPhrase(text[i]) \in PaywallPhrases

NoException == [step |-> "", fault |-> ""]

NoSummary == [Login |-> "", Paywall |-> "", Tables |-> -1, Documents |-> -1]

NoCreds == [username |-> FALSE, password |-> FALSE]

\* the files of the company folder besides tables and documents
SnapshotFiles(v) ==
    IF v = "scraperv1"
    THEN {"full_page.html", "text_content.md", "key_metrics.csv"}
    ELSE {"full_page.html"}

SummaryFiles == {"summary.csv", "_table_index.csv"}

PaywallLog == {"paywall text seen", "paywall may have limited data"}

InitRun ==
    run = [pc |-> "login", creds |-> NoCreds, login_outcome |-> "", login_success |-> "unset",
           login_page |-> FALSE, paywall_detected |-> "unset", log |-> {}, ops |-> <<>>,
           caught |-> {}, files |-> {}, tables |-> 0, links |-> 0, downloaded |-> 0,
           summary |-> NoSummary, returned |-> FALSE, propagated |-> NoException,
           quits |-> 0]

IdleRun ==
    run = [pc |-> "idle", creds |-> NoCreds, login_outcome |-> "", login_success |-> "unset",
           login_page |-> FALSE, paywall_detected |-> "unset", log |-> {}, ops |-> <<>>,
           caught |-> {}, files |-> {}, tables |-> 0, links |-> 0, downloaded |-> 0,
           summary |-> NoSummary, returned |-> FALSE, propagated |-> NoException,
           quits |-> 0]

\* the steps after the browser has loaded the page whose statements stand bare in
\* the try/finally: parsing reads driver.page_source, the others write files or
\* walk the parsed page, and any of them can end in an exception
BareSteps == {"parse", "snapshot", "tables", "links", "downloads", "summary"}

Raises == [raises |-> TRUE]

\* what the environment decides at the step the run is at
InputsAt(v, r) ==
    (IF r.pc \in BareSteps THEN {Raises} ELSE {}) \cup
    CASE r.pc = "login" ->
            { [creds |-> c, outcome |-> o] :
                 c \in {k \in Creds : ~HasCreds(k)}, o \in {"not tried"} }
              \cup { [creds |-> c, outcome |-> o] :
                        c \in {k \in Creds : HasCreds(k)}, o \in LoginOutcomes }
      [] r.pc \in UiSteps -> { [fault |-> f] : f \in {"none"} \cup FaultsAt(r.pc) }
      [] r.pc = "paywall" -> { [text |-> t] : t \in PageTexts }
      [] r.pc = "tables" -> { [saved |-> n] : n \in 0..1 }
      [] r.pc = "links" -> { [found |-> n] : n \in 0..MaxItems }
      [] r.pc = "downloads" -> { [ok |-> n] : n \in 0..r.links }
      [] OTHER -> { [none |-> TRUE] }

\* login_success = login_to_screener(driver), and the note when it is false
AfterLogin(v, r, x) ==
    LET tried == HasCreds(x.creds)
        success == IF tried THEN LoginReturn(x.outcome) ELSE "False"
    IN  [r EXCEPT !.pc = StepAfter(v, "login"),
                  !.creds = x.creds,
                  !.login_outcome = x.outcome,
                  !.login_page = tried,
                  !.login_success = success,
                  !.ops = IF tried THEN Append(@, "driver.get login page") ELSE @,
                  !.log = @ \cup (IF tried THEN {} ELSE {"no credentials found"})
                            \cup (IF tried /\ x.outcome \in UiFaults THEN {"login error"}
                                  ELSE {})
                            \cup (IF success = "False" THEN {"continuing without login"}
                                  ELSE {})]

\* a step that drives the browser: a failure is swallowed where the step catches
\* it, else it leaves the try block
AfterUi(v, r, x) ==
    IF x.fault # "none" /\ ~CaughtLocally(r.pc)
    THEN [r EXCEPT !.pc = "finally",
                   !.ops = Append(@, r.pc),
                   !.propagated = [step |-> r.pc, fault |-> x.fault]]
    ELSE [r EXCEPT !.pc = StepAfter(v, r.pc),
                   !.ops = Append(@, r.pc),
                   !.caught = IF x.fault # "none" THEN @ \cup {r.pc} ELSE @]

\* soup = BeautifulSoup(driver.page_source, 'html.parser')
AfterParse(v, r, x) == [r EXCEPT !.pc = StepAfter(v, "parse"), !.ops = Append(@, "parse")]

\* a faulty check: a page that looks paywalled ends the run
AfterPaywallStops(v, r, x) ==
    [r EXCEPT !.pc = IF check_paywall(x.text) THEN "finally" ELSE StepAfter(v, "paywall"),
              !.paywall_detected = IF check_paywall(x.text) THEN "True" ELSE "False",
              !.log = @ \cup (IF check_paywall(x.text) THEN {"paywall text seen"} ELSE {})]

\* is_paywalled, msg = check_paywall(soup); the result is printed and kept
AfterPaywall(v, r, x) ==
    [r EXCEPT !.pc = StepAfter(v, "paywall"),
              !.paywall_detected = IF check_paywall(x.text) THEN "True" ELSE "False",
              !.log = @ \cup (IF check_paywall(x.text) THEN {"paywall text seen"} ELSE {})]

\* the page snapshot, and in scraperv1.py the text content and the key metrics
AfterSnapshot(v, r, x) ==
    [r EXCEPT !.pc = StepAfter(v, "snapshot"),
              !.ops = Append(@, "snapshot"),
              !.files = @ \cup SnapshotFiles(v)]

\* the table extractor, by the number of tables it saved
AfterTables(v, r, x) ==
    [r EXCEPT !.pc = StepAfter(v, "tables"),
              !.ops = Append(@, "extract tables"),
              !.tables = x.saved,
              !.files = @ \cup (IF x.saved > 0 THEN {"financial_tables/*.csv"} ELSE {})]

\* the link extractors, by the number of links they found
AfterLinks(v, r, x) ==
    [r EXCEPT !.pc = StepAfter(v, "links"),
              !.ops = Append(@, "extract links"),
              !.links = x.found]

\* the download loop, by the number of links whose download succeeded
AfterDownloads(v, r, x) ==
    [r EXCEPT !.pc = StepAfter(v, "downloads"),
              !.ops = Append(@, "download links"),
              !.downloaded = x.ok,
              !.files = @ \cup (IF x.ok > 0 THEN {"documents/*"} ELSE {})]

\* the summary, its CSV, the table index, and the closing warning
AfterSummary(v, r, x) ==
    [r EXCEPT !.pc = StepAfter(v, "summary"),
              !.ops = Append(@, "write summary"),
              !.summary = [Login |-> IF r.login_success = "True" THEN "Yes" ELSE "No",
                           Paywall |-> IF r.paywall_detected = "True"
                                       THEN "Yes (Text seen)" ELSE "No",
                           Tables |-> r.tables,
                           Documents |-> r.downloaded],
              !.files = @ \cup SummaryFiles,
              !.log = @ \cup (IF r.paywall_detected = "True"
                              THEN {"paywall may have limited data"} ELSE {})]

\* return company_folder, tables_saved, download_stats
AfterReturn(v, r, x) == [r EXCEPT !.pc = "finally", !.returned = TRUE]

\* a faulty function: driver.quit() is the last statement of the try body, there
\* is no finally
AfterRaiseWithoutFinally(v, r, x) ==
    [r EXCEPT !.pc = "done", !.propagated = [step |-> r.pc, fault |-> "Exception"]]

\* a bare step raises: the exception leaves the try body, the finally runs
AfterRaise(v, r, x) ==
    [r EXCEPT !.pc = "finally", !.propagated = [step |-> r.pc, fault |-> "Exception"]]

\* finally: driver.quit()
AfterQuit(v, r, x) == [r EXCEPT !.pc = "done", !.quits = @ + 1]

\* the run after the step it is at, for what the environment decided
After(v, r, x) ==
    CASE x = Raises -> AfterRaise(v, r, x)
      [] r.pc = "login" -> AfterLogin(v, r, x)
      [] r.pc \in UiSteps -> AfterUi(v, r, x)
      [] r.pc = "parse" -> AfterParse(v, r, x)
      [] r.pc = "paywall" -> AfterPaywall(v, r, x)
      [] r.pc = "snapshot" -> AfterSnapshot(v, r, x)
      [] r.pc = "tables" -> AfterTables(v, r, x)
      [] r.pc = "links" -> AfterLinks(v, r, x)
      [] r.pc = "downloads" -> AfterDownloads(v, r, x)
      [] r.pc = "summary" -> AfterSummary(v, r, x)
      [] r.pc = "return" -> AfterReturn(v, r, x)
      [] r.pc = "finally" -> AfterQuit(v, r, x)
      [] OTHER -> r

\* the run takes the step `step`
Takes(step) ==
    /\ run.pc = step
    /\ \E x \in InputsAt(variant, run) : run' = After(variant, run, x)
    /\ UNCHANGED outside_run

RunLogin == Takes("login")

RunGet == Takes("get")

RunWait == Takes("wait")

RunScroll == Takes("scroll")

RunExpand == Takes("expand")

RunShowMore == Takes("show_more")

RunSlowScroll == Takes("slow_scroll")

RunNotes == Takes("notes")

RunParse == Takes("parse")

RunPaywall == Takes("paywall")

RunSnapshot == Takes("snapshot")

RunTables == Takes("tables")

RunLinks == Takes("links")

RunDownloads == Takes("downloads")

RunSummary == Takes("summary")

RunReturn == Takes("return")

RunQuit == Takes("finally")

NextRun ==
    \/ RunLogin
    \/ RunGet
    \/ RunWait
    \/ RunScroll
    \/ RunExpand
    \/ RunShowMore
    \/ RunSlowScroll
    \/ RunNotes
    \/ RunParse
    \/ RunPaywall
    \/ RunSnapshot
    \/ RunTables
    \/ RunLinks
    \/ RunDownloads
    \/ RunSummary
    \/ RunReturn
    \/ RunQuit

(***************************************************************************)
(* Concall link extractor: extract_concalls_comprehensive of scraperv1.py. *)
(* The list of the Concalls container is a sequence of nodes in document   *)
(* order: a list item, then the elements of class concall-link it holds.   *)
(***************************************************************************)
\* a list item; has_div: it starts with a div, whose text is the quarter label
Li(has_div, label) ==
    [tag |-> "li", has_div |-> has_div, label |-> label, text |-> "", href |-> FALSE]

\* an element of class concall-link; href: el.get("href") is a non-empty string
Element(tag, text, href) ==
    [tag |-> tag, has_div |-> FALSE, label |-> "", text |-> text, href |-> href]

ListNodeKinds ==
    { Li(FALSE, ""), Li(TRUE, ""), Li(TRUE, "Q2 FY24"),
      Element("a", "Transcript", TRUE),
      Element("button", "Notes", FALSE),
      Element("a", "", TRUE),
      Element("div", "PPT", FALSE) }

NoQuarter == "<None>"

\* ul.find_all("li"), in document order
ListItems(nodes) ==
    SelectSeq([i \in 1..Len(nodes) |-> i], LAMBDA i : nodes[i].tag = "li")

\* li.find_all(class_="concall-link"): the elements up to the next list item
ItemElements(nodes, li) ==
    SelectSeq([i \in 1..Len(nodes) |-> i],
              LAMBDA e : e > li /\ \A k \in (li + 1)..e : nodes[k].tag # "li")

\* quarter_div = li.find("div"): the first div inside the item, the label's or
\* that of a plain <div> entry; its stripped text, or None without a div
QuarterText(nodes, li) ==
    LET divs == SelectSeq(ItemElements(nodes, li), LAMBDA e : nodes[e].tag = "div") IN
    IF nodes[li].has_div THEN nodes[li].label
    ELSE IF divs # <<>> THEN nodes[Head(divs)].text
    ELSE NoQuarter

\* f"{quarter_text}_{link_text}" if quarter_text else link_text
DocName(quarter, link_text) ==
    IF quarter \notin {NoQuarter, ""} THEN <<quarter, "_", link_text>> ELSE <<link_text>>

\* a faulty test: "if not link_text: continue"
EmitsAnyText(el) == el.text # ""

\* not (not href or not link_text)
Emits(el) == el.href /\ el.text # ""

ConcallLink(quarter, e, link_text) ==
    [category |-> "concalls", text |-> DocName(quarter, link_text), link |-> e,
     quarter |-> quarter]

\* the links one list item adds to concalls
ItemLinks(nodes, li) ==
    LET els == SelectSeq(ItemElements(nodes, li), LAMBDA e : Emits(nodes[e]))
    IN  [k \in 1..Len(els) |->
            ConcallLink(QuarterText(nodes, li), els[k], nodes[els[k]].text)]

IdleConcalls ==
    [pc |-> "idle", has_container |-> FALSE, has_list |-> FALSE, nodes |-> <<>>,
     items_left |-> <<>>, out |-> <<>>, result |-> "none"]

InitConcalls ==
    \E c \in BOOLEAN, l \in BOOLEAN :
        concalls = [IdleConcalls EXCEPT !.pc = "start", !.has_container = c,
                                        !.has_list = c /\ l]

\* the parser builds the list: one more node, before the extractor is called
ParseListNode ==
    /\ concalls.pc = "start"
    /\ concalls.has_list
    /\ Len(concalls.nodes) < MaxListNodes
    /\ \E k \in ListNodeKinds :
          concalls' = [concalls EXCEPT !.nodes = Append(concalls.nodes, k)]
    /\ UNCHANGED outside_concalls

\* "Concalls container not found via BeautifulSoup": return concalls
ConcallsNoContainer ==
    /\ concalls.pc = "start"
    /\ ~concalls.has_container
    /\ concalls' = [concalls EXCEPT !.pc = "done", !.result = "returned"]
    /\ UNCHANGED outside_concalls

\* "No list-links <ul> found under Concalls": return concalls
ConcallsNoList ==
    /\ concalls.pc = "start"
    /\ concalls.has_container /\ ~concalls.has_list
    /\ concalls' = [concalls EXCEPT !.pc = "done", !.result = "returned"]
    /\ UNCHANGED outside_concalls

\* the container and its list are found: the loop over ul.find_all("li") begins
ConcallsList ==
    /\ concalls.pc = "start"
    /\ concalls.has_container /\ concalls.has_list
    /\ concalls' = [concalls EXCEPT !.pc = "items",
                                    !.items_left = ListItems(concalls.nodes)]
    /\ UNCHANGED outside_concalls

\* one list item: the inner loop over its concall-link elements
ConcallsItem ==
    /\ concalls.pc = "items"
    /\ concalls.items_left # <<>>
    /\ concalls' = [concalls EXCEPT
                      !.out = concalls.out
                                \o ItemLinks(concalls.nodes, Head(concalls.items_left)),
                      !.items_left = Tail(concalls.items_left)]
    /\ UNCHANGED outside_concalls

\* return concalls
ConcallsReturn ==
    /\ concalls.pc = "items"
    /\ concalls.items_left = <<>>
    /\ concalls' = [concalls EXCEPT !.pc = "done", !.result = "returned"]
    /\ UNCHANGED outside_concalls

NextConcalls ==
    \/ ParseListNode
    \/ ConcallsNoContainer
    \/ ConcallsNoList
    \/ ConcallsList
    \/ ConcallsItem
    \/ ConcallsReturn

(***************************************************************************)
(* Slow scroll: the while loop of scrape_screener_company that walks down   *)
(* the page in steps.                                                      *)
(***************************************************************************)
\* scroll_height // 10 (scraperv1.py), scroll_height // 8 (scraper.py)
Divisor(v) == IF v = "scraperv1" THEN 10 ELSE 8

DefaultStep(v) == IF v = "scraperv1" THEN 500 ELSE 800

\* step = scroll_height // 10 if scroll_height > 0 else 500
StepOf(v, scroll_height) ==
    IF scroll_height > 0 THEN scroll_height \div Divisor(v) ELSE DefaultStep(v)

IdleScroll == [pc |-> "idle", scroll_height |-> 0, step |-> 0, current |-> 0, prev |-> -1]

InitScroll == scroll = [IdleScroll EXCEPT !.pc = "start"]

\* scroll_height = document.body.scrollHeight; current = 0; step = ...
ScrollRead ==
    /\ scroll.pc = "start"
    /\ \E h \in 0..MaxHeight :
          scroll' = [scroll EXCEPT !.pc = "loop", !.scroll_height = h,
                                   !.step = StepOf(variant, h)]
    /\ UNCHANGED outside_scroll

\* one turn of "while current < scroll_height": scrollTo(0, current), sleep,
\* current += step
ScrollStep ==
    /\ scroll.pc = "loop"
    /\ scroll.current < scroll.scroll_height
    /\ scroll' = [scroll EXCEPT !.prev = scroll.current,
                                !.current = scroll.current + scroll.step]
    /\ UNCHANGED outside_scroll

\* the loop condition is false: the final scroll to the bottom
ScrollExit ==
    /\ scroll.pc = "loop"
    /\ ~(scroll.current < scroll.scroll_height)
    /\ scroll' = [scroll EXCEPT !.pc = "done"]
    /\ UNCHANGED outside_scroll

NextScroll ==
    \/ ScrollRead
    \/ ScrollStep
    \/ ScrollExit

IdleExtras == concalls = IdleConcalls /\ scroll = IdleScroll

(***************************************************************************)
(* Specifications: one per stage; the other stages stay idle.              *)
(***************************************************************************)
TablesStart ==
    /\ variant \in Variants /\ InitTables /\ IdleDownload /\ IdleNotes /\ IdleDocs /\ IdleRun
    /\ IdleExtras

SpecTables == TablesStart /\ [][NextTables]_vars

\* the links come from the extractors of the variant
DownloadStart ==
    /\ variant \in Variants /\ IdleTables /\ IdleNotes /\ IdleDocs /\ IdleRun
    /\ IdleExtras
    /\ InitDownloadWith(ProducedCategories(variant))

SpecDownload == DownloadStart /\ [][NextDownload]_vars

\* the links carry any category string, also one that is no key of folders
DownloadAnyStart ==
    /\ variant \in Variants /\ IdleTables /\ IdleNotes /\ IdleDocs /\ IdleRun
    /\ IdleExtras
    /\ InitDownloadWith(AnyCategories)

SpecDownloadAny == DownloadAnyStart /\ [][NextDownload]_vars

\* only scraperv1.py has the note extractor
NotesStartState ==
    /\ variant = "scraperv1" /\ IdleTables /\ IdleDownload /\ IdleDocs /\ IdleRun
    /\ IdleExtras
    /\ InitNotes

SpecNotes == NotesStartState /\ [][NextNotes]_vars

DocsStart ==
    /\ variant \in Variants /\ IdleTables /\ IdleDownload /\ IdleNotes /\ IdleRun
    /\ IdleExtras /\ InitDocs

SpecDocs == DocsStart /\ [][NextDocs]_vars

RunStart ==
    /\ variant \in Variants /\ IdleTables /\ IdleDownload /\ IdleNotes /\ IdleDocs
    /\ IdleExtras /\ InitRun

SpecRun == RunStart /\ [][NextRun]_vars

\* only scraperv1.py has the concall link extractor
ConcallsStart ==
    /\ variant = "scraperv1" /\ IdleTables /\ IdleDownload /\ IdleNotes /\ IdleDocs
    /\ IdleRun /\ scroll = IdleScroll /\ InitConcalls

SpecConcalls == ConcallsStart /\ [][NextConcalls]_vars

ScrollStart ==
    /\ variant \in Variants /\ IdleTables /\ IdleDownload /\ IdleNotes /\ IdleDocs
    /\ IdleRun /\ concalls = IdleConcalls /\ InitScroll

SpecScroll == ScrollStart /\ [][NextScroll]_vars

(***************************************************************************)
(* Claims about the run as a whole.                                        *)
(***************************************************************************)
LoginDone == run.login_success # "unset"

CredsAbsent == ~(run.creds.username /\ run.creds.password)

LoginLog == {"no credentials found", "login error", "continuing without login"}

\* the run without what the login left behind
WithoutLogin(r) ==
    [r EXCEPT !.creds = NoCreds, !.login_outcome = "", !.login_success = "hidden",
              !.login_page = FALSE, !.log = @ \ LoginLog,
              !.ops = SelectSeq(@, LAMBDA op : op # "driver.get login page"),
              !.summary = [@ EXCEPT !.Login = "hidden"]]

\* C13: when a credential variable is absent login_to_screener returns False
\* without opening the login page and logs a warning; whatever the login did
\* (absent credentials, still on the login page, a driver call that raised), no
\* exception of it leaves scrape_screener_company, the run goes on to load the
\* company page and takes the same steps as after a successful login, and the
\* summary records the failure as Login = 'No'.
C13_LoginNeverAborts ==
    LoginDone =>
        /\ CredsAbsent =>
              /\ run.login_success = "False"
              /\ ~run.login_page
              /\ \A i \in 1..Len(run.ops) : run.ops[i] # "driver.get login page"
              /\ "no credentials found" \in run.log
        /\ run.login_outcome # "logged in" =>
              /\ run.login_success = "False"
              /\ "continuing without login" \in run.log
        /\ run.propagated.step # "login"
        /\ (\A i \in 1..Len(run.ops) : run.ops[i] = "driver.get login page")
              => run.pc = "get"
        /\ run.summary # NoSummary =>
              run.summary.Login = IF run.login_success = "True" THEN "Yes" ELSE "No"
        /\ \A success \in {"True", "False"} :
              LET other == [run EXCEPT !.login_success = success]
              IN  /\ InputsAt(variant, other) = InputsAt(variant, run)
                  /\ \A x \in InputsAt(variant, run) :
                        WithoutLogin(After(variant, other, x))
                            = WithoutLogin(After(variant, run, x))

C13_Witness ==
    /\ run.pc = "done" /\ run.returned
    /\ ~run.creds.username /\ run.creds.password
    /\ ~run.login_page
    /\ run.summary.Login = "No"
    /\ run.downloaded > 0

\* the run without what the paywall check left behind: the flag, the two notes it
\* makes the run print, and the Paywall field of the summary
WithoutPaywall(r) ==
    [r EXCEPT !.paywall_detected = "hidden", !.log = @ \ PaywallLog,
              !.summary = [@ EXCEPT !.Paywall = "hidden"]]

\* C14: the paywall check is advisory only. Whatever text the check sees, the run
\* is the same after it but for the flag and the log; and from any point after
\* the check, a run in which the heuristic fired and one in which it did not face
\* the same choices of the environment and, for the same choices, take the same
\* next step with the same operations, files and counts: they differ in the log
\* and in the Paywall field of the summary only.
C14_PaywallAdvisoryOnly ==
    /\ run.pc = "paywall" =>
          \A x1 \in InputsAt(variant, run), x2 \in InputsAt(variant, run) :
              WithoutPaywall(After(variant, run, x1)) = WithoutPaywall(After(variant, run, x2))
    /\ run.paywall_detected # "unset" =>
          \A fired \in {"True", "False"} :
              LET other == [run EXCEPT !.paywall_detected = fired]
              IN  /\ InputsAt(variant, other) = InputsAt(variant, run)
                  /\ \A x \in InputsAt(variant, run) :
                        WithoutPaywall(After(variant, other, x))
                            = WithoutPaywall(After(variant, run, x))

C14_Witness ==
    /\ run.pc = "done" /\ run.returned
    /\ run.paywall_detected = "True"
    /\ run.summary.Paywall = "Yes (Text seen)"
    /\ run.tables > 0 /\ run.downloaded > 0
    /\ "documents/*" \in run.files

\* C18: a transient failure of the browser (element not found, not interactable,
\* stale reference, wait timeout) at any step of the run, the page-load wait and
\* the scrolling included, is caught where it happens: no such exception leaves
\* scrape_screener_company, and the run goes on to its return.
C18_UiFailuresCaughtLocally ==
    /\ run.propagated.fault \notin UiFaults
    /\ run.pc = "done" => run.returned

\* C29: once the browser session exists, every way out of scrape_screener_company
\* (the return, or an exception of any step) goes through exactly one
\* driver.quit(), and no step of the run comes after it.
C29_QuitOnceOnEveryExit ==
    /\ run.quits \in {0, 1}
    /\ run.pc = "done" =>
          /\ run.quits = 1
          /\ run.returned \/ run.propagated # NoException
    /\ run.quits = 1 => run.pc = "done"
    /\ run.pc = "done" => \A x \in InputsAt(variant, run) : After(variant, run, x) = run

\* an exception of the download loop has ended the run, and the session was quit
C29_Witness ==
    /\ run.pc = "done"
    /\ run.propagated.step = "downloads"
    /\ ~run.returned
    /\ run.quits = 1
    /\ run.links > 0

(***************************************************************************)
(* Claims about the table extractor.                                       *)
(***************************************************************************)
TableSeen == last_table.idx >= 0

OutputsUntouched ==
    /\ tables_saved = last_table.saved_before
    /\ csv_files = last_table.files_before

\* C7: a table whose parsed grid has fewer than 2 rows or fewer than 2 columns
\* produces no output record: the iteration that handles it writes no CSV and
\* adds no entry to tables_saved.
C7_SmallTableNoRecord ==
    (TableSeen /\ (last_table.rows < 2 \/ last_table.cols < 2))
        => (last_table.outcome # "saved" /\ OutputsUntouched)

C7_Witness ==
    /\ TableSeen
    /\ last_table.fault = "none"
    /\ last_table.rows < 2 /\ last_table.cols >= 2
    /\ last_table.outcome = "dropped"
    /\ DOMAIN tables_saved # {}

CollidingSave ==
    /\ TableSeen
    /\ last_table.outcome = "saved"
    /\ last_table.base \in DOMAIN last_table.saved_before

SmallestFreeSuffix(n) ==
    /\ last_table.name = Suffixed(last_table.base, n)
    /\ Suffixed(last_table.base, n) \notin DOMAIN last_table.saved_before
    /\ \A m \in 1..(n - 1) : Suffixed(last_table.base, m) \in DOMAIN last_table.saved_before

\* C8 as stated: on a collision the table is saved under <base>_<n> with n the
\* smallest positive integer whose name is unused, and the second of two tables
\* with the same inferred name is saved with suffix _1.
C8_Original ==
    CollidingSave =>
        /\ \E n \in 1..(MaxTables + 1) : SmallestFreeSuffix(n)
        /\ CountOf(last_table.bases_before, last_table.base) = 1
              => last_table.name = Suffixed(last_table.base, 1)

\* C8 as amended: on a collision the table is saved under <base>_<n> with n the
\* smallest positive integer whose name is unused; the second of two tables with
\* the same inferred name is saved with suffix _1 unless the name <base>_1 is itself
\* already taken by an earlier table.
C8_SmallestUnusedSuffix ==
    CollidingSave =>
        /\ \E n \in 1..(MaxTables + 1) : SmallestFreeSuffix(n)
        /\ (/\ CountOf(last_table.bases_before, last_table.base) = 1
            /\ Suffixed(last_table.base, 1) \notin DOMAIN last_table.saved_before)
              => last_table.name = Suffixed(last_table.base, 1)

C8_Witness ==
    /\ CollidingSave
    /\ CountOf(last_table.bases_before, last_table.base) = 1
    /\ last_table.name = Suffixed(last_table.base, 1)

MonthAbbreviations ==
    {"jan", "feb", "mar", "apr", "may", "jun", "jul", "aug", "sep", "oct", "nov", "dec"}

\* C22: in scraperv1 a table is named after its section heading when it has one;
\* otherwise after the first keyword group found in its first column, in the
\* order Profit_Loss, Balance_Sheet, Cash_Flows, Ratios, Quarterly_Results (any
\* month abbreviation), Shareholding_Pattern; otherwise Table_<position among all
\* the tables of the page>.
C22_NameByFixedPrecedence ==
    (variant = "scraperv1" /\ last_table.base # NoName) =>
        LET text == last_table.first_col
            has(keys) == keys \cap text # {}
        IN  last_table.base =
              IF last_table.section # NoSection THEN clean_filename(last_table.section)
              ELSE IF has({"sales", "revenue", "operating profit", "expenses"})
                  THEN ProfitLossName
              ELSE IF has({"equity", "reserves", "assets", "liabilities", "borrowings"})
                  THEN BalanceSheetName
              ELSE IF has({"cash from operating", "cash from investing",
                           "cash from financing"})
                  THEN CashFlowsName
              ELSE IF has({"debtor days", "roce", "roe", "working capital"})
                  THEN RatiosText
              ELSE IF has(MonthAbbreviations) THEN QuarterlyName
              ELSE IF has({"promoter", "fii", "dii"}) THEN ShareholdingName
              ELSE TableText \o <<"_">> \o Str(last_table.idx)

(***************************************************************************)
(* Claims about the file materializer.                                     *)
(***************************************************************************)
Downloaded == last_download.outcome \in {"raw", "dropped", "kept", "delegated"}

\* C3 as stated: for every link flagged force_pdf (quarterly-result links and
\* rewritten ICRA links) every file the materializer writes has the extension
\* .pdf, whatever the URL's path extension and the content-type probe are.
C3_Original ==
    (Downloaded /\ last_download.force_pdf)
        => \A p \in last_download.written : p.ext = ".pdf"

\* C3 as amended: for every link flagged force_pdf the materializer chooses a
\* save path with the extension .pdf whatever the URL's path extension is, and a
\* raw download writes exactly that path whatever the content-type probe reports;
\* files with another extension are written for such a link only when the URL is
\* handed to a dedicated formatter, which writes its own .md/.html bundle.
C3_ForcePdfChoosesPdf ==
    last_download.force_pdf =>
        /\ last_download.save_path.ext = ".pdf"
        /\ last_download.get = "ok"
              => /\ last_download.target = last_download.save_path
                 /\ last_download.written = {last_download.save_path}
        /\ (\E p \in last_download.written : p.ext # ".pdf")
              => /\ last_download.outcome = "delegated"
                 /\ Delegates(variant, last_download.url)

C3_Witness ==
    /\ last_download.force_pdf
    /\ last_download.url.path_ext = ".html"
    /\ last_download.head = "html"
    /\ last_download.outcome = "raw"
    /\ last_download.target.ext = ".pdf"
    /\ last_download.target \in disk

SmallErrorPage ==
    /\ last_download.get = "ok"
    /\ last_download.body.size < MinSize(variant)
    /\ \E i \in 1..Len(last_download.body.text) :
          Lower(last_download.body.text[i]) \in ErrorPhrases

\* C4: after a raw download whose file is smaller than the minimum size and
\* contains an error-page phrase (case-insensitive), download_file has returned
\* False and no file exists at the target path.
C4_SmallErrorPageDeleted ==
    SmallErrorPage => (~last_download.ret /\ last_download.target \notin disk)

AmbiguousLink ==
    /\ variant = "scraperv1"
    /\ ~last_download.force_pdf
    /\ last_download.url.path_ext \in {".aspx", ".php"}

\* C11: for a link not flagged force_pdf whose URL path ends in .aspx or .php, the
\* file a raw download saves has the extension .pdf when the content-type probe
\* reports a PDF and .html otherwise.
C11_ProbeDecidesExtension ==
    (AmbiguousLink /\ last_download.get = "ok")
        => \A p \in last_download.written :
              p.ext = IF last_download.head = "pdf" THEN ".pdf" ELSE ".html"

SpecialSite ==
    /\ variant = "scraperv1"
    /\ last_download.url.site \in {"indiaratings", "crisil"}
    /\ last_download.outcome \notin {"none", "skipped"}

\* C12: for a URL of one of the two specially handled sites download_file of
\* scraperv1.py calls the dedicated formatter; when the formatter succeeds the
\* call returns True, the three files of the bundle (.md, .html, _raw.html) are on
\* disk in the folder of save_path and neither the probe nor the GET of the raw
\* path was sent; when the formatter raises, the raw download path runs for the
\* same URL and the call returns what that path returns.
C12_DelegatesOrFallsBack ==
    SpecialSite =>
        \/ /\ last_download.formatter = "ok"
           /\ last_download.ret
           /\ last_download.head = "" /\ last_download.get = ""
           /\ Cardinality(last_download.written) = 3
           /\ last_download.written \subseteq disk
           /\ \A p \in last_download.written : p.folder = last_download.save_path.folder
           /\ {p.ext : p \in last_download.written} = {".md", ".html"}
           /\ \E p \in last_download.written :
                 p.ext = ".html" /\ p.stem[Len(p.stem)] = "_raw"
           /\ last_download.save_path \notin last_download.written
        \/ /\ last_download.formatter = "raised"
           /\ last_download.outcome
                 \in {"unbound", "get failed", "write failed", "raw", "dropped", "kept"}
           /\ last_download.ret = (last_download.outcome \in {"raw", "kept"})
           /\ last_download.get = "ok" => last_download.written = {last_download.target}
           /\ last_download.get # "ok" => last_download.written = {}

C12_Witness ==
    /\ variant = "scraperv1"
    /\ last_download.url.site = "crisil"
    /\ last_download.formatter = "raised"
    /\ last_download.outcome = "raw"
    /\ last_download.ret
    /\ last_download.target \in disk
    /\ \E p \in disk : p.stem = <<"indiaratings", "_raw">>

\* C15: every DocumentLink of all_doc_links is handed to download_file exactly
\* once in the run: the loop has an entry for every link it has taken, each entry
\* counts one call, and at the end of the loop every link has been taken.
C15_EachLinkHandedOnce ==
    /\ Len(handed) = didx
    /\ \A i \in 1..Len(handed) : handed[i].calls = 1
    /\ dpc = "done" => Len(handed) = num_items

NetworkFailure == last_download.outcome \in {"get failed", "write failed"}

\* C16: no exception leaves download_file; when the GET fails (timeout, connection
\* error, status that is not 2xx) or the response breaks off while it is written,
\* the call returns False, the loop goes on with the next link, and at the end of
\* the loop every link has been taken.
C16_DownloadFileNeverRaises ==
    /\ dpc # "raised"
    /\ NetworkFailure =>
          /\ ~last_download.ret
          /\ didx = Len(handed)
          /\ handed[didx] = [calls |-> 1, ret |-> FALSE]
          /\ dpc = "loop"
    /\ dpc = "done" => Len(handed) = num_items

C16_Witness ==
    /\ variant = "scraperv1"
    /\ didx = 2
    /\ handed = <<[calls |-> 1, ret |-> FALSE], [calls |-> 1, ret |-> TRUE]>>
    /\ last_download.outcome = "raw"
    /\ Cardinality(last_download.disk_before) = 1
    /\ Cardinality(disk) = 2

ReportedFailure == last_download.outcome \notin {"none", "skipped"} /\ ~last_download.ret

\* C17 as stated: when download_file reports failure for a link, the success
\* counter of the link's category is one less than before the link, and the loop
\* moves on.
C17_Original ==
    ReportedFailure =>
        /\ CountOf(download_stats, last_download.category)
              = CountOf(last_download.stats_before, last_download.category) - 1
        /\ didx = Len(handed) /\ dpc = "loop"

\* C17 as amended: when download_file reports failure for a link, download_stats
\* is what it was before the link (the counter of the category goes up on
\* success only and never down), and the loop moves on to the next link.
C17_FailureLeavesCounter ==
    /\ ReportedFailure =>
          /\ download_stats = last_download.stats_before
          /\ didx = Len(handed) /\ dpc = "loop"
    /\ (last_download.outcome # "none" /\ last_download.ret) =>
          download_stats = Counted(last_download.stats_before, last_download.category)
    /\ \A c \in DOMAIN download_stats : download_stats[c] >= 0

C17_Witness ==
    /\ ReportedFailure
    /\ last_download.outcome = "get failed"
    /\ didx = 2
    /\ CountOf(download_stats, last_download.category) = 1

\* C27: whenever download_file has returned False, no file that the call created
\* is left at the path it wrote to.
C27_FailureLeavesNoFile ==
    ReportedFailure => last_download.target \notin disk \ last_download.disk_before

\* C28: when the HEAD probe of scraperv1's download_file raises, the GET is still
\* sent, whatever the extension of the target path: the probe's failure is never
\* what makes download_file return False.
C28_ProbeFailureNotFatal ==
    (variant = "scraperv1" /\ last_download.outcome \notin {"none", "skipped"}
        /\ last_download.head = "raises")
        => (last_download.get # "" /\ last_download.outcome # "unbound")

(***************************************************************************)
(* Claims about the modal note extractor.                                 *)
(***************************************************************************)
Positions(n) == [i \in 1..n |-> i - 1]

EverySavedFileExists ==
    \A i \in 1..Len(saved_log) : saved_log[i].file \in DOMAIN notes_files

\* C1 as stated: when the run is over, every trigger found at the start has been
\* activated, in order (a timeout skipping only the trigger it happens on), and
\* every trigger whose dialog became visible with non-empty text has its notes in
\* a file that exists.
C1_Original ==
    (npc = "done" /\ found > 0)
        => (activated = Positions(found) /\ EverySavedFileExists)

LastWriteOf(i) ==
    \A j \in (i + 1)..Len(saved_log) : saved_log[j].file # saved_log[i].file

\* C1 as amended: a timeout ends only its own iteration: the loop goes on at the
\* next position and no file is touched. The loop ends early only by the break
\* on a re-queried list that is too short; the positions are activated in
\* increasing order, and every iteration that neither breaks nor raises before the
\* click activates its position. Every iteration that read non-empty text has
\* written a file that exists ever after, and the file holds the text of the last
\* iteration that wrote that name.
C1_TimeoutSkipsOnlyThatTrigger ==
    /\ last_note.outcome = "timeout"
          => /\ npc = "loop" /\ nidx = last_note.idx + 1
             /\ notes_files = last_note.files_before
    /\ (npc = "done" /\ found > 0) => (nidx = found \/ last_note.outcome = "break")
    /\ last_note.outcome = "break" => npc = "done"
    /\ \A i \in 1..Len(activated) : \A j \in 1..Len(activated) :
          i < j => activated[i] < activated[j]
    /\ last_note.outcome \in {"timeout", "read raised", "no text", "saved"}
          => (activated # <<>> /\ activated[Len(activated)] = last_note.idx)
    /\ \A i \in 1..Len(saved_log) :
          /\ saved_log[i].file \in DOMAIN notes_files
          /\ LastWriteOf(i) => notes_files[saved_log[i].file] = saved_log[i].text

C1_Witness ==
    /\ npc = "done" /\ found = 3
    /\ timed_out = {1}
    /\ activated = <<0, 1, 2>>
    /\ Len(saved_log) = 2
    /\ saved_log[1].text = <<"n", "o", "t", "e", "s", " ", "0">>
    /\ saved_log[2].text = <<"n", "o", "t", "e", "s", " ", "2">>
    /\ saved_log[1].file # saved_log[2].file
    /\ notes_files[saved_log[1].file] = saved_log[1].text
    /\ notes_files[saved_log[2].file] = saved_log[2].text

\* C2: whenever a Notes trigger is activated, no dialog (of an earlier trigger, or
\* a stale one from before the run) is open.
C2_NoDialogOpenAtActivation ==
    last_note.clicked => last_note.open_at_click = {}

\* the name without its extension .md: none of the characters < > : " / \ | ? *,
\* no white space, at most 150 characters
SafeNoteName(file) ==
    LET n == Len(file) - 3
        stem == SubSeq(file, 1, n)
    IN  /\ n >= 1 /\ n <= 150
        /\ SubSeq(file, n + 1, Len(file)) = <<".", "m", "d">>
        /\ \A i \in 1..n :
              stem[i] \notin {"<", ">", ":", "\"", "/", "\\", "|", "?", "*", " ", "\t", "\n"}

\* C19: a note is written only by an iteration whose dialog text is non-empty
\* after strip(); the file is named clean_filename(title + "_concall_notes") +
\* ".md", a name that holds none of the characters < > : " / \ | ? *, no white
\* space and at most 150 characters before the extension; and the iteration writes
\* the file before it asks the dialog to close.
C19_NoteWrittenBeforeClose ==
    /\ \A f \in DOMAIN notes_files : SafeNoteName(f) /\ notes_files[f] # <<>>
    /\ last_note.outcome \notin {"none", "saved"} =>
          (notes_files = last_note.files_before /\ last_note.file = <<>>)
    /\ last_note.outcome = "no text" => last_note.text = <<>>
    /\ last_note.outcome = "saved" =>
          /\ last_note.text # <<>>
          /\ last_note.file
                = clean_filename(last_note.title \o NotesSuffix) \o <<".", "m", "d">>
          /\ notes_files[last_note.file] = last_note.text
    /\ \A j \in 1..Len(last_note.events) :
          /\ last_note.events[j] = "write" => last_note.outcome = "saved"
          /\ (last_note.outcome = "saved" /\ last_note.events[j] \in {"close", "wait gone"})
                => \E i \in 1..(j - 1) : last_note.events[i] = "write"

C19_Witness ==
    /\ last_note.outcome = "saved"
    /\ Len(last_note.title) > 150
    /\ Len(last_note.file) = 153
    /\ last_note.file \in DOMAIN notes_files
    /\ \E f \in DOMAIN notes_files : Len(f) < 153

\* the iterations that reach btn = notes_buttons[idx]
TakesButton(note) == note.outcome \notin {"break", "requery raised"}

\* C20: when the list of Notes triggers shrinks or comes back in another order,
\* the loop never indexes the re-queried list out of range and never leaves by an
\* exception: every iteration re-queries, it breaks exactly when the re-queried
\* list is too short for the position, an iteration that takes a button takes it
\* inside the list, and there are at most as many iterations as the initial query
\* found triggers
C20_ShrinkingListIsSafe ==
    /\ npc \in {"idle", "start", "loop", "done"}
    /\ nidx <= found
    /\ Len(activated) <= found
    /\ last_note # NoNote =>
          /\ last_note.idx < found
          /\ last_note.events # <<>> /\ last_note.events[1] = "requery"
          /\ last_note.outcome # "requery raised" => last_note.list_len \in 0..found
          /\ last_note.outcome = "break"
                <=> (last_note.list_len # -1 /\ last_note.idx >= last_note.list_len)
          /\ TakesButton(last_note) => last_note.idx < last_note.list_len
          /\ last_note.outcome = "break" => npc = "done"
          /\ last_note.outcome # "break" => (npc = "loop" /\ nidx = last_note.idx + 1)

\* the list shrank after some triggers had been activated, and the loop broke
\* before the initial count was used up
C20_Witness ==
    /\ last_note.outcome = "break"
    /\ activated # <<>>
    /\ last_note.list_len < found
    /\ last_note.idx + 1 < found
    /\ npc = "done"

(***************************************************************************)
(* Claims about the document classifier.                                   *)
(***************************************************************************)
\* the sub-headings of the scope that are not skipped, on the page as it was given
ScopedHeadings ==
    { h \in SubHeadings(page.parent, scope) : ~In("concall", page.kind[h].text) }

\* the hyperlinks among the sibling nodes between a heading and the next one
LinksBelow(h) ==
    { a \in 1..Len(page.kind) :
        /\ page.kind[a].tag = "a" /\ page.kind[a].href
        /\ \E s \in SectionNodes(page.parent, h) : a = s \/ IsUnder(page.parent, a, s) }

Emitted(category, a) ==
    Cardinality({ i \in 1..Len(docs) : docs[i] = DocumentLink(category, a) })

PurelyNavigational(a) ==
    page.kind[a].text \in {"", "all", "show more", "show all", "add missing"}

\* C5: when scraperv1's classifier has run over a page, for every sub-heading of
\* its scope each hyperlink among the sibling nodes between that heading and the
\* next sub-heading has given exactly one DocumentLink with that heading's
\* category, and a link whose text is empty or purely navigational has given none.
C5_EachLinkOncePerHeading ==
    (variant = "scraperv1" /\ cpc = "done" /\ result = "returned" /\ scope # None)
        => /\ \A h \in ScopedHeadings : \A a \in LinksBelow(h) :
                  Emitted(CategoryOf(page.kind[h].text), a)
                      = IF PurelyNavigational(a) THEN 0 ELSE 1
           /\ \A i \in 1..Len(docs) : ~PurelyNavigational(docs[i].link)

HasDocsHeading ==
    \E n \in 1..Len(page.kind) :
        page.kind[n].tag \in {"h2", "h3", "h4"} /\ page.kind[n].text = "documents"

\* C6: the classifier never raises, and when the page has no h2/h3/h4 heading
\* with 'documents' in its text, or no sections are found in the chosen scope, it
\* has returned an empty list.
C6_EmptyAndNeverRaises ==
    /\ result # "raised"
    /\ (cpc = "done" /\ (~HasDocsHeading \/ sections = <<>>))
          => (result = "returned" /\ docs = <<>>)

C6_Witness ==
    /\ variant = "scraperv1"
    /\ cpc = "done" /\ result = "returned" /\ docs = <<>>
    /\ HasDocsHeading /\ scope # None /\ sections = <<>>
    /\ \E h \in SubHeadings(page.parent, scope) :
          /\ page.kind[h].text = "concalls"
          /\ \E a \in LinksBelow(h) : ~PurelyNavigational(a)

\* the ancestors of the 'documents' heading that the upward walk visits: strictly
\* below <body>, at most MaxClimb levels above the heading
WalkedAncestors ==
    { a \in PathToBody(page.parent, docs_heading) \ {docs_heading, BodyTag} :
        Cardinality(PathToBody(page.parent, docs_heading) \ PathToBody(page.parent, a))
            <= MaxClimb }

LinkCount(a) ==
    Cardinality({ x \in 1..Len(page.kind) :
                    /\ page.kind[x].tag = "a" /\ page.kind[x].href
                    /\ a \in PathToBody(page.parent, x) \ {x} })

\* C23: scraperv1's classifier works in the ancestor of the 'documents' heading,
\* strictly below <body> and within the upward walk, that holds the most
\* hyperlinks; among ancestors with the same number it takes the innermost; when
\* none of them holds a hyperlink it returns an empty list.
C23_ScopeHasMostLinks ==
    (variant = "scraperv1" /\ cpc # "start" /\ docs_heading # None) =>
        IF \A a \in WalkedAncestors : LinkCount(a) = 0
        THEN scope = None /\ cpc = "done" /\ result = "returned" /\ docs = <<>>
        ELSE /\ scope \in WalkedAncestors
             /\ \A a \in WalkedAncestors :
                   /\ LinkCount(a) <= LinkCount(scope)
                   /\ LinkCount(a) = LinkCount(scope)
                         => a \in PathToBody(page.parent, scope)

\* two ancestors hold the same, greatest number of hyperlinks and the inner one
\* is the scope
C23_Witness ==
    /\ variant = "scraperv1" /\ cpc # "start" /\ docs_heading # None
    /\ scope # None
    /\ \E a \in WalkedAncestors :
          a # scope /\ LinkCount(a) = LinkCount(scope) /\ LinkCount(a) > 0
    /\ \E a \in WalkedAncestors : LinkCount(a) < LinkCount(scope)

\* C24: scraperv1's classifier gives each sub-heading its category by the first
\* of 'concall' (skipped), 'announce', 'annual', 'credit' found in its title, else
\* other; it emits no hyperlink of a skipped concall section; it emits no link of
\* category concalls or quarterly_results; and no link is emitted both by it and
\* by the concall extractor that runs after it.
C24_CategoryByPriority ==
    (variant = "scraperv1" /\ cpc = "done" /\ result = "returned" /\ scope # None) =>
        /\ \A i \in 1..Len(sections) :
              LET title == page.kind[sections[i].heading].text IN
              /\ ~In("concall", title)
              /\ sections[i].category =
                    IF In("announce", title) THEN "announcements"
                    ELSE IF In("annual", title) THEN "annual"
                    ELSE IF In("credit", title) THEN "credit_ratings"
                    ELSE "other"
        /\ \A h \in SubHeadings(page.parent, scope) :
              In("concall", page.kind[h].text)
                  => \A a \in LinksBelow(h) : \A i \in 1..Len(docs) : docs[i].link # a
        /\ \A i \in 1..Len(docs) : docs[i].category \notin {"concalls", "quarterly_results"}
        /\ \A i \in 1..Len(docs) : docs[i].link \notin ConcallLinks(dom)

\* C30: scraperv1's classifier leaves the parsed page as it found it: every node
\* still hangs where the parser put it, and the concall extractor, run on the
\* page after the classifier, finds the elements it would have found before it.
C30_PageLeftUnchanged ==
    (variant = "scraperv1" /\ cpc = "done") =>
        /\ \A n \in 1..Len(page.parent) : dom[n] = page.parent[n]
        /\ ConcallLinks(dom) = ConcallLinks(page.parent)

(***************************************************************************)
(* Claims about the concall link extractor.                                *)
(***************************************************************************)
\* the list item a node of the list lies in, or 0 when it lies before the first
ItemOf(e) ==
    LET before == { i \in 1..e : concalls.nodes[i].tag = "li" } IN
    IF before = {} THEN 0 ELSE CHOOSE i \in before : \A j \in before : j <= i

EmittedFor(e) == { k \in 1..Len(concalls.out) : concalls.out[k].link = e }

\* C25: when the concall extractor has returned, every concall-link element of
\* every list item that has an href and a text has given exactly one link, of
\* category concalls, whose text is <quarter label>_<action text> when the item
\* has a quarter label; every other element has given none; and without a
\* container or without a list the result is the empty list. The extractor
\* always returns.
C25_OneLinkPerConcallElement ==
    /\ concalls.result \in {"none", "returned"}
    /\ concalls.pc = "done" =>
          /\ concalls.result = "returned"
          /\ (~concalls.has_container \/ ~concalls.has_list) => concalls.out = <<>>
          /\ \A e \in 1..Len(concalls.nodes) :
                LET el == concalls.nodes[e]
                    li == ItemOf(e)
                IN  el.tag # "li" =>
                      IF li # 0 /\ el.href /\ el.text # ""
                      THEN /\ Cardinality(EmittedFor(e)) = 1
                           /\ \A k \in EmittedFor(e) :
                                 /\ concalls.out[k].category = "concalls"
                                 /\ (concalls.nodes[li].has_div
                                        /\ concalls.nodes[li].label # "")
                                       => concalls.out[k].text
                                            = <<concalls.nodes[li].label, "_", el.text>>
                      ELSE EmittedFor(e) = {}
          /\ \A k \in 1..Len(concalls.out) :
                concalls.out[k].link \in 1..Len(concalls.nodes)

\* an item with a quarter label holds a link and a Notes button: the link is
\* emitted, the button is not
C25_Witness ==
    /\ concalls.pc = "done"
    /\ Len(concalls.out) = 2
    /\ \E e \in 1..Len(concalls.nodes) :
          /\ concalls.nodes[e].tag = "button" /\ ItemOf(e) # 0
          /\ concalls.nodes[ItemOf(e)].label # ""
    /\ \E k \in 1..Len(concalls.out) : Len(concalls.out[k].text) = 3

(***************************************************************************)
(* Claims about the slow scroll.                                           *)
(***************************************************************************)
\* C26: the slow-scroll loop ends for every scroll height of 0 or more: every
\* turn of the loop leaves the position greater than it found it, and the loop
\* is left with the position at or beyond the height.
C26_SlowScrollAdvances ==
    /\ scroll.prev # -1 => scroll.current > scroll.prev
    /\ scroll.pc = "done" => scroll.current >= scroll.scroll_height

====
